---------------------------- MODULE Spec2Model ----------------------------
(***************************************************************************)
(* A model of the chic-rust chess engine: the board (squares, piece lists,  *)
(* Zobrist hash), make_move, the move generator, perft, and the             *)
(* alpha-beta search with its UCI driver.                                   *)
(*                                                                          *)
(* Conventions.  Rust arrays are functions over 0..n-1.  Option<T> is a     *)
(* sequence: << >> is None and <<x>> is Some(x).  A Square is a record;     *)
(* Square::Empty is the record Empty and Square::Occupied(p) is p itself.   *)
(* A &str is a sequence of one-character strings.  The 64-bit Zobrist hash  *)
(* is the set of the keys XORed into it (the keys are independent random    *)
(* 64-bit words, XOR is the symmetric difference of key sets).              *)
(***************************************************************************)
EXTENDS Integers, Sequences, FiniteSets, TLC

VARIABLES board, parent, last_move, plies, panic_at,
          text, parse_result, answer,
          perft_depth, perft_result,
          engine_board, repetition_map, principal_variation, last_pvs, aborted,
          mutex, poisoned, main, worker,
          phase, elapsed, iterative, root, stack, ret,
          completed, returned,
          board_repetition_map, game

boardVars == <<board, parent, last_move, plies, panic_at>>
perftVars == <<perft_depth, perft_result>>
historyVars == <<board_repetition_map, game>>
textVars == <<text, parse_result, answer>>

-----------------------------------------------------------------------------
(* model.rs *)

White == "White"
Black == "Black"

opposite(c) == IF c = White THEN Black ELSE White

Pawn == "Pawn"
Knight == "Knight"
Bishop == "Bishop"
Rook == "Rook"
Queen == "Queen"
King == "King"

\* derive(PartialOrd, Ord) on enum PieceType: the declaration order
PieceTypeOrd(k) ==
    CASE k = Pawn -> 0 [] k = Knight -> 1 [] k = Bishop -> 2
      [] k = Rook -> 3 [] k = Queen -> 4 [] k = King -> 5

Piece(c, k) == [color |-> c, kind |-> k]

Empty == [color |-> "None", kind |-> "None"]

IsOccupied(sq) == sq.kind # "None"

None == << >>
Some(x) == <<x>>
IsSome(o) == Len(o) = 1
Unwrap(o) == o[1]

ChessField(r, c) == [row |-> r, col |-> c]

NoField == ChessField(99, 99)

Move(fr, fc, tr, tc) ==
    [from |-> ChessField(fr, fc), to |-> ChessField(tr, tc), promotion |-> None]

with_promotion(mv, k) == [mv EXCEPT !.promotion = Some(k)]

Files == <<"a", "b", "c", "d", "e", "f", "g", "h">>
Ranks == <<"1", "2", "3", "4", "5", "6", "7", "8">>

IndexOf(seq, x) ==
    IF \E i \in 1..Len(seq) : seq[i] = x
        THEN (CHOOSE i \in 1..Len(seq) : seq[i] = x) - 1
        ELSE 99

to_char(p) ==
    LET lower == CASE p.kind = Pawn -> "p" [] p.kind = Knight -> "n"
                   [] p.kind = Bishop -> "b" [] p.kind = Rook -> "r"
                   [] p.kind = Queen -> "q" [] p.kind = King -> "k"
        upper == CASE p.kind = Pawn -> "P" [] p.kind = Knight -> "N"
                   [] p.kind = Bishop -> "B" [] p.kind = Rook -> "R"
                   [] p.kind = Queen -> "Q" [] p.kind = King -> "K"
    IN  IF p.color = White THEN upper ELSE lower

-----------------------------------------------------------------------------
(* zobrist_hash.rs *)

BOARD_SIZE == 8

ColorIndex(c) == IF c = White THEN 0 ELSE 1

ZobristPieceIndex(k) ==
    CASE k = Pawn -> 0 [] k = Knight -> 1 [] k = Bishop -> 2
      [] k = Rook -> 3 [] k = Queen -> 4 [] k = King -> 5

\* piece_keys[color][piece][square]: keys 0..767, in the order they are drawn
piece_keys(c, k, sq) == ColorIndex(c) * 384 + ZobristPieceIndex(k) * 64 + sq

side_to_move_key == 768

castling_keys(i) == 769 + i

en_passant_keys(file) == 773 + file

\* h ^= key
Xor(h, key) == IF key \in h THEN h \ {key} ELSE h \cup {key}

XorAll(h, keys) == (h \ keys) \cup (keys \ h)

calculate_hash(b) ==
    LET pieces == { piece_keys(b.squares[r][c].color, b.squares[r][c].kind,
                               r * BOARD_SIZE + c) :
                      <<r, c>> \in { rc \in (0..7) \X (0..7) :
                                       IsOccupied(b.squares[rc[1]][rc[2]]) } }
        side == IF b.active_color = Black THEN {side_to_move_key} ELSE {}
        castling == { castling_keys(i) : i \in { j \in 0..3 : b.castling_rights[j] } }
        ep == IF IsSome(b.en_passant)
                  THEN {en_passant_keys(Unwrap(b.en_passant).col)} ELSE {}
    IN  pieces \cup side \cup castling \cup ep

\* The incremental updates make_move calls
update_piece(h, p, row, col) == Xor(h, piece_keys(p.color, p.kind, row * BOARD_SIZE + col))

update_square(h, sq, row, col) ==
    IF IsOccupied(sq) THEN update_piece(h, sq, row, col) ELSE h

update_castling(h, rights) ==
    XorAll(h, { castling_keys(i) : i \in { j \in 0..3 : rights[j] } })

update_enpassing(h, ep) ==
    IF IsSome(ep) THEN Xor(h, en_passant_keys(Unwrap(ep).col)) ELSE h

update_active_side(h) == Xor(h, side_to_move_key)

-----------------------------------------------------------------------------
(* chess_board.rs: the board and its piece lists *)

get_piece_type_index(k) ==
    CASE k = Pawn -> 5 [] k = Knight -> 4 [] k = Bishop -> 3
      [] k = Rook -> 2 [] k = Queen -> 1 [] k = King -> 0

\* ChessBoard::new
NewBoard ==
    [squares |-> [r \in 0..7 |-> [c \in 0..7 |-> Empty]],
     active_color |-> White,
     castling_rights |-> [i \in 0..3 |-> FALSE],
     en_passant |-> None,
     halfmove_clock |-> 0,
     fullmove_number |-> 1,
     hash |-> {},
     last_capture |-> NoField,
     black_pieces_positions |-> [i \in 0..15 |-> NoField],
     white_pieces_positions |-> [i \in 0..15 |-> NoField],
     black_pieces |-> [i \in 0..6 |-> 0],
     white_pieces |-> [i \in 0..6 |-> 0]]

PiecesOf(b, c) == IF c = White THEN b.white_pieces ELSE b.black_pieces

PositionsOf(b, c) ==
    IF c = White THEN b.white_pieces_positions ELSE b.black_pieces_positions

SetPieceList(b, c, pieces, positions) ==
    IF c = White
        THEN [b EXCEPT !.white_pieces = pieces, !.white_pieces_positions = positions]
        ELSE [b EXCEPT !.black_pieces = pieces, !.black_pieces_positions = positions]

\* the squares holding `piece`, in scan order (row 0..7, then col 0..7)
RECURSIVE ScanFrom(_, _, _)
ScanFrom(b, piece, n) ==
    IF n = 64 THEN << >>
    ELSE LET r == n \div 8
             c == n % 8
         IN  IF b.squares[r][c] = piece
                 THEN <<ChessField(r, c)>> \o ScanFrom(b, piece, n + 1)
                 ELSE ScanFrom(b, piece, n + 1)

find_piece_position_position_by_scanning(b, piece) == ScanFrom(b, piece, 0)

KindsInListOrder == <<King, Queen, Rook, Bishop, Knight, Pawn>>

\* (positions, piece_indexes): the pieces of `color` grouped by type, with the
\* prefix sums of the group sizes
get_piece_position_data_structure(b, color) ==
    LET found == [i \in 1..6 |->
                    find_piece_position_position_by_scanning(b, Piece(color, KindsInListOrder[i]))]
        upto[i \in 0..6] == IF i = 0 THEN << >> ELSE upto[i - 1] \o found[i]
    IN  [positions |-> upto[6],
         piece_indexes |-> [i \in 0..6 |-> Len(upto[i])]]

\* update_piece_position: rewrite the entries equal to mv.from inside the slice
\* of piece.kind, in the list of the ACTIVE colour
update_piece_position(b, mv, piece) ==
    LET piece_index == get_piece_type_index(piece.kind)
        pieces == PiecesOf(b, b.active_color)
        pos == PositionsOf(b, b.active_color)
        new == [i \in 0..15 |->
                  IF i >= pieces[piece_index] /\ i < pieces[piece_index + 1]
                     /\ pos[i] = mv.from
                      THEN mv.to ELSE pos[i]]
    IN  SetPieceList(b, b.active_color, pieces, new)

\* insert_pieces_array_and_positions: shift [pieces[piece_index], pieces[6]) up by
\* one, put the field at pieces[piece_index], add one to the indexes from piece_index
insert_pieces_array_and_positions(field, piece_index, pieces, piece_position) ==
    LET start == pieces[piece_index]
        new == [i \in 0..15 |->
                  IF i = start THEN field
                  ELSE IF i > start /\ i <= pieces[6] THEN piece_position[i - 1]
                  ELSE piece_position[i]]
    IN  [pieces |-> [i \in 0..6 |-> IF i >= piece_index THEN pieces[i] + 1 ELSE pieces[i]],
         positions |-> new]

insert_piece_from_piece_position(b, field, piece) ==
    LET piece_index == get_piece_type_index(piece.kind) + 1
        r == insert_pieces_array_and_positions(field, piece_index,
                 PiecesOf(b, b.active_color), PositionsOf(b, b.active_color))
    IN  SetPieceList(b, b.active_color, r.pieces, r.positions)

\* the first loop of remove_pieces_array_and_positions
RECURSIVE RemoveShift(_, _, _, _, _)
RemoveShift(pos, i, last, field, found) ==
    IF i >= last THEN [positions |-> pos, found |-> found]
    ELSE IF found \/ pos[i] = field
        THEN RemoveShift([pos EXCEPT ![i] = pos[i + 1]], i + 1, last, field, TRUE)
        ELSE RemoveShift(pos, i + 1, last, field, found)

\* a faulty variant of remove_pieces_array_and_positions: the list is left as it was
RemoveNothing(field, piece_index, pieces, piece_position) ==
    [pieces |-> pieces, positions |-> piece_position]

\* remove_pieces_array_and_positions.  With an empty list (pieces[6] = 0) the
\* code computes pieces[6] - 1 on a u8 and stops with a panic; no list is changed.
remove_pieces_array_and_positions(field, piece_index, pieces, piece_position) ==
    IF pieces[6] = 0 THEN [pieces |-> pieces, positions |-> piece_position]
    ELSE
    LET last == pieces[6] - 1
        s == RemoveShift(piece_position, pieces[piece_index], last, field, FALSE)
        atLast == s.positions[last] = field
        found == s.found \/ atLast
        pos2 == IF atLast THEN [s.positions EXCEPT ![last] = ChessField(99, 99)]
                ELSE s.positions
    IN  [pieces |-> IF found
                       THEN [i \in 0..6 |-> IF i >= piece_index + 1 THEN pieces[i] - 1
                                            ELSE pieces[i]]
                       ELSE pieces,
         positions |-> pos2]

\* remove_piece_from_piece_position: from the list of the PIECE's colour
remove_piece_from_piece_position(b, field, piece) ==
    LET piece_index == get_piece_type_index(piece.kind)
        r == remove_pieces_array_and_positions(field, piece_index,
                 PiecesOf(b, piece.color), PositionsOf(b, piece.color))
    IN  SetPieceList(b, piece.color, r.pieces, r.positions)

find_king_position(b, color) ==
    LET king == PositionsOf(b, color)[0]
    IN  IF king = ChessField(99, 99) THEN None ELSE Some(king)

-----------------------------------------------------------------------------
(* fen.rs *)

Digits == <<"0", "1", "2", "3", "4", "5", "6", "7", "8", "9">>

is_ascii_digit(ch) == \E i \in 1..10 : Digits[i] = ch

to_digit(ch) == IndexOf(Digits, ch)

PieceChars == <<"p", "r", "n", "b", "q", "k", "P", "R", "N", "B", "Q", "K">>

PieceOfChar(ch) ==
    CASE ch = "p" -> Piece(Black, Pawn)   [] ch = "r" -> Piece(Black, Rook)
      [] ch = "n" -> Piece(Black, Knight) [] ch = "b" -> Piece(Black, Bishop)
      [] ch = "q" -> Piece(Black, Queen)  [] ch = "k" -> Piece(Black, King)
      [] ch = "P" -> Piece(White, Pawn)   [] ch = "R" -> Piece(White, Rook)
      [] ch = "N" -> Piece(White, Knight) [] ch = "B" -> Piece(White, Bishop)
      [] ch = "Q" -> Piece(White, Queen)  [] ch = "K" -> Piece(White, King)
      [] OTHER -> Empty

\* str::split(sep): the pieces between the separators, empty pieces included
RECURSIVE SplitAcc(_, _, _, _)
SplitAcc(s, sep, i, cur) ==
    IF i > Len(s) THEN <<cur>>
    ELSE IF s[i] = sep THEN <<cur>> \o SplitAcc(s, sep, i + 1, << >>)
    ELSE SplitAcc(s, sep, i + 1, Append(cur, s[i]))

Split(s, sep) == SplitAcc(s, sep, 1, << >>)

Contains(s, ch) == \E i \in 1..Len(s) : s[i] = ch

\* str::parse::<u8>: an optional '+', then at least one digit, value at most 255
RECURSIVE DecimalValue(_, _, _)
DecimalValue(s, i, acc) ==
    IF i > Len(s) THEN acc
    ELSE IF acc > 255 THEN acc
    ELSE DecimalValue(s, i + 1, acc * 10 + to_digit(s[i]))

parse_u8(s) ==
    LET body == IF Len(s) > 0 /\ s[1] = "+" THEN SubSeq(s, 2, Len(s)) ELSE s
    IN  IF Len(body) = 0 \/ \E i \in 1..Len(body) : ~is_ascii_digit(body[i])
            THEN None
        ELSE IF DecimalValue(body, 1, 0) > 255 THEN None
        ELSE Some(DecimalValue(body, 1, 0))

parse_square(square) ==
    IF Len(square) # 2 THEN None
    ELSE IF IndexOf(Files, square[1]) # 99 /\ IndexOf(Ranks, square[2]) # 99
        THEN Some(ChessField(IndexOf(Ranks, square[2]), IndexOf(Files, square[1])))
        ELSE None

\* one row of the placement: the squares after the row, or ok = FALSE
RECURSIVE ParseRow(_, _, _, _, _)
ParseRow(squares, row_index, row, i, col_index) ==
    IF i > Len(row)
        THEN [ok |-> col_index <= 8, squares |-> squares]
    ELSE IF col_index > 7 THEN [ok |-> FALSE, squares |-> squares]
    ELSE IF is_ascii_digit(row[i])
        THEN ParseRow(squares, row_index, row, i + 1, col_index + to_digit(row[i]))
    ELSE IF IsOccupied(PieceOfChar(row[i]))
        THEN ParseRow([squares EXCEPT ![7 - row_index][col_index] = PieceOfChar(row[i])],
                      row_index, row, i + 1, col_index + 1)
    ELSE [ok |-> FALSE, squares |-> squares]

RECURSIVE ParseRows(_, _, _)
ParseRows(squares, rows, row_index) ==
    IF row_index = Len(rows) THEN [ok |-> TRUE, squares |-> squares]
    ELSE LET r == ParseRow(squares, row_index, rows[row_index + 1], 1, 0)
         IN  IF r.ok THEN ParseRows(r.squares, rows, row_index + 1) ELSE r

Err == [ok |-> FALSE, board |-> NewBoard]

\* fen::from_fen: Result<ChessBoard, String> as [ok, board]
fen_from_fen(fen) ==
    LET parts == Split(fen, " ")
    IN  IF Len(parts) # 6 THEN Err
        ELSE
        LET rows == Split(parts[1], "/")
        IN  IF Len(rows) # 8 THEN Err
            ELSE
            LET placed == ParseRows(NewBoard.squares, rows, 0)
                ep == IF parts[4] = <<"-">> THEN None ELSE parse_square(parts[4])
                half == parse_u8(parts[5])
                full == parse_u8(parts[6])
            IN  IF ~placed.ok THEN Err
                ELSE IF parts[2] # <<"w">> /\ parts[2] # <<"b">> THEN Err
                ELSE IF parts[4] # <<"-">> /\ ~IsSome(ep) THEN Err
                ELSE IF ~IsSome(half) THEN Err
                ELSE IF ~IsSome(full) THEN Err
                ELSE [ok |-> TRUE,
                      board |-> [NewBoard EXCEPT
                          !.squares = placed.squares,
                          !.active_color = IF parts[2] = <<"w">> THEN White ELSE Black,
                          !.castling_rights = [i \in 0..3 |->
                              Contains(parts[3], <<"K", "Q", "k", "q">>[i + 1])],
                          !.en_passant = ep,
                          !.halfmove_clock = Unwrap(half),
                          !.fullmove_number = Unwrap(full)]]

\* ChessBoard::from_fen: the parsed board with its hash and both piece lists
from_fen(fen) ==
    LET r == fen_from_fen(fen)
    IN  IF ~r.ok THEN r
        ELSE
        LET b == r.board
            w == get_piece_position_data_structure(b, White)
            k == get_piece_position_data_structure(b, Black)
        IN  [ok |-> TRUE,
             board |-> [b EXCEPT
                 !.hash = calculate_hash(b),
                 !.white_pieces_positions = [i \in 0..15 |->
                     IF i < Len(w.positions) THEN w.positions[i + 1] ELSE NoField],
                 !.white_pieces = w.piece_indexes,
                 !.black_pieces_positions = [i \in 0..15 |->
                     IF i < Len(k.positions) THEN k.positions[i + 1] ELSE NoField],
                 !.black_pieces = k.piece_indexes]]

DigitChars == <<"0", "1", "2", "3", "4", "5", "6", "7", "8", "9">>

\* u8::to_string: the decimal digits of a u8
RECURSIVE Decimal(_)
Decimal(n) ==
    IF n < 10 THEN <<DigitChars[n + 1]>>
    ELSE Decimal(n \div 10) \o <<DigitChars[(n % 10) + 1]>>

\* model.rs, to_algebraic_square: the file letter and the rank number
to_algebraic_square(row, col) == <<Files[col + 1]>> \o Decimal(row + 1)

\* ChessField::as_algebraic
field_as_algebraic(f) == to_algebraic_square(f.row, f.col)

\* fen::to_fen, lines 115-138: one rank, runs of empty squares as their count
RECURSIVE RankText(_, _, _, _)
RankText(b, rank, file, empty_count) ==
    IF file = 8
        THEN IF empty_count > 0 THEN Decimal(empty_count) ELSE << >>
    ELSE IF IsOccupied(b.squares[rank][file])
        THEN (IF empty_count > 0 THEN Decimal(empty_count) ELSE << >>)
             \o <<to_char(b.squares[rank][file])>> \o RankText(b, rank, file + 1, 0)
    ELSE RankText(b, rank, file + 1, empty_count + 1)

\* the ranks 8 down to 1 with '/' between them
RECURSIVE BoardText(_, _)
BoardText(b, rank) ==
    RankText(b, rank, 0, 0) \o (IF rank > 0 THEN <<"/">> \o BoardText(b, rank - 1) ELSE << >>)

\* lines 142-150: "KQkq" without the letters of the rights that are false
CastlingText(rights) ==
    LET kept == SelectSeq(<<0, 1, 2, 3>>, LAMBDA i : rights[i])
    IN  IF kept = << >> THEN <<"-">>
        ELSE [j \in 1..Len(kept) |-> <<"K", "Q", "k", "q">>[kept[j] + 1]]

\* fen::to_fen
to_fen(b) ==
    BoardText(b, 7) \o <<" ">>
    \o <<IF b.active_color = White THEN "w" ELSE "b">> \o <<" ">>
    \o CastlingText(b.castling_rights) \o <<" ">>
    \o (IF IsSome(b.en_passant) THEN field_as_algebraic(Unwrap(b.en_passant)) ELSE <<"-">>)
    \o <<" ">> \o Decimal(b.halfmove_clock) \o <<" ">> \o Decimal(b.fullmove_number)

-----------------------------------------------------------------------------
(* chess_board.rs: make_move *)

SquareAt(b, f) == b.squares[f.row][f.col]

SetSquare(b, r, c, v) == [b EXCEPT !.squares[r][c] = v]

\* the largest u8
U8_MAX == 255

\* u8 += 1 (a release build wraps)
U8Inc(x) == (x + 1) % (U8_MAX + 1)

\* lines 127-131: reset the halfmove clock on a pawn move or a capture
MoveClock(b, mv, p) ==
    IF p.kind = Pawn \/ IsOccupied(SquareAt(b, mv.to))
        THEN [b EXCEPT !.halfmove_clock = 0]
        ELSE [b EXCEPT !.halfmove_clock = U8Inc(b.halfmove_clock)]

\* a faulty variant of lines 133-134: the square is cleared, the hash is not updated
MoveLiftKeepsHash(b, mv, p) == SetSquare(b, mv.from.row, mv.from.col, Empty)

\* lines 133-134: lift the piece from its square
MoveLift(b, mv, p) ==
    SetSquare([b EXCEPT !.hash = update_piece(b.hash, p, mv.from.row, mv.from.col)],
              mv.from.row, mv.from.col, Empty)

\* lines 136-142: a piece on the destination is captured
MoveCapture(b, mv) ==
    LET target == SquareAt(b, mv.to)
    IN  IF IsOccupied(target)
            THEN remove_piece_from_piece_position(
                     [b EXCEPT !.hash = update_piece(b.hash, target, mv.to.row, mv.to.col),
                               !.last_capture = mv.to],
                     mv.to, target)
            ELSE [b EXCEPT !.last_capture = ChessField(99, 99)]

\* lines 143-146: put the piece on the destination, in squares, hash and piece list
MovePlace(b, mv, p) ==
    update_piece_position(
        SetSquare([b EXCEPT !.hash = update_piece(b.hash, p, mv.to.row, mv.to.col)],
                  mv.to.row, mv.to.col, p),
        mv, p)

\* lines 148-161: an en-passant capture removes the pawn beside the mover; the
\* en-passant square is then cleared
ClearEnPassant(b) ==
    [b EXCEPT !.hash = update_enpassing(b.hash, b.en_passant), !.en_passant = None]

\* a faulty variant: the captured pawn is looked for on the destination square
MoveEnPassantOnDestination(b, mv, p) ==
    ClearEnPassant(
        IF IsSome(b.en_passant) /\ mv.to = Unwrap(b.en_passant) /\ p.kind = Pawn
            THEN SetSquare([b EXCEPT !.hash =
                               update_square(b.hash, b.squares[mv.to.row][mv.to.col],
                                             mv.to.row, mv.to.col)],
                           mv.to.row, mv.to.col, Empty)
            ELSE b)

MoveEnPassant(b, mv, p) ==
    ClearEnPassant(
        IF IsSome(b.en_passant) /\ mv.to = Unwrap(b.en_passant) /\ p.kind = Pawn
            THEN remove_piece_from_piece_position(
                     SetSquare([b EXCEPT !.hash =
                                   update_square(b.hash, b.squares[mv.from.row][mv.to.col],
                                                 mv.from.row, mv.to.col)],
                               mv.from.row, mv.to.col, Empty),
                     ChessField(mv.from.row, mv.to.col),
                     Piece(opposite(p.color), Pawn))
            ELSE b)

\* the rook's part of a castling move: from rook_col to rook_to on the king's row
RookHash(b, row, rook_col, rook_to) ==
    update_square(update_square(b.hash, b.squares[row][rook_to], row, rook_to),
                  b.squares[row][rook_col], row, rook_col)

RookLift(b, row, rook_col, rook_to) ==
    SetSquare([b EXCEPT !.hash = RookHash(b, row, rook_col, rook_to)], row, rook_col, Empty)

\* a faulty variant: the rook stays on its corner
CastleRookStays(b, mv, p, rook_col, rook_to) == b

CastleRook(b, mv, p, rook_col, rook_to) ==
    update_piece_position(
        RookLift(SetSquare(b, mv.from.row, rook_to, b.squares[mv.from.row][rook_col]),
                 mv.from.row, rook_col, rook_to),
        [to |-> ChessField(mv.from.row, rook_to), from |-> ChessField(mv.from.row, rook_col),
         promotion |-> None],
        Piece(p.color, Rook))

\* lines 164-200
MoveCastling(b, mv, p) ==
    IF p.kind # King THEN b
    ELSE IF mv.from.col = 4 /\ mv.to.col = 6 /\ mv.from.row = mv.to.row
        THEN IF b.castling_rights[IF b.active_color = White THEN 0 ELSE 2]
                 THEN CastleRook(b, mv, p, 7, 5)
                 ELSE b
    ELSE IF mv.from.col = 4 /\ mv.to.col = 2 /\ mv.from.row = mv.to.row
        THEN IF b.castling_rights[IF b.active_color = White THEN 1 ELSE 3]
                 THEN update_piece_position(
                          CastleRook(b, mv, p, 0, 3),
                          [to |-> ChessField(mv.from.row, 3),
                           from |-> ChessField(mv.from.row, 0), promotion |-> None],
                          p)
                 ELSE b
    ELSE b

\* a faulty variant: a move from a corner or a king's square keeps the rights
RightsKeptOnLeaving(rights, mv) == rights

\* lines 201-215: a move that starts on a rook's or king's home square
RightsAfterFrom(rights, mv) ==
    IF mv.from.row = 0 /\ mv.from.col = 0 THEN [rights EXCEPT ![1] = FALSE]
    ELSE IF mv.from.row = 7 /\ mv.from.col = 0 THEN [rights EXCEPT ![3] = FALSE]
    ELSE IF mv.from.row = 0 /\ mv.from.col = 7 THEN [rights EXCEPT ![0] = FALSE]
    ELSE IF mv.from.row = 7 /\ mv.from.col = 7 THEN [rights EXCEPT ![2] = FALSE]
    ELSE IF mv.from.row = 0 /\ mv.from.col = 4
        THEN [rights EXCEPT ![0] = FALSE, ![1] = FALSE]
    ELSE IF mv.from.row = 7 /\ mv.from.col = 4
        THEN [rights EXCEPT ![2] = FALSE, ![3] = FALSE]
    ELSE rights

\* a faulty variant: a move onto a corner keeps the rights
RightsKept(rights, mv) == rights

\* lines 216-225: a move that ends on a rook's home square
RightsAfterTo(rights, mv) ==
    IF mv.to.row = 0 /\ mv.to.col = 0 THEN [rights EXCEPT ![1] = FALSE]
    ELSE IF mv.to.row = 7 /\ mv.to.col = 0 THEN [rights EXCEPT ![3] = FALSE]
    ELSE IF mv.to.row = 0 /\ mv.to.col = 7 THEN [rights EXCEPT ![0] = FALSE]
    ELSE IF mv.to.row = 7 /\ mv.to.col = 7 THEN [rights EXCEPT ![2] = FALSE]
    ELSE rights

MoveRights(b, mv) ==
    [b EXCEPT !.castling_rights = RightsAfterTo(RightsAfterFrom(b.castling_rights, mv), mv)]

\* lines 238-242: the pawn on the destination becomes the promoted piece
PromoteSquare(b, mv, p, promotion_piece) ==
    [SetSquare(b, mv.to.row, mv.to.col, promotion_piece) EXCEPT !.hash =
        update_piece(update_piece(b.hash, p, mv.to.row, mv.to.col),
                     promotion_piece, mv.to.row, mv.to.col)]

PromoteLists(b, mv, p, promotion_piece) ==
    insert_piece_from_piece_position(
        remove_piece_from_piece_position(PromoteSquare(b, mv, p, promotion_piece), mv.to, p),
        mv.to, promotion_piece)

MovePromote(b, mv, p) == PromoteLists(b, mv, p, Piece(p.color, Unwrap(mv.promotion)))

\* a faulty variant: a double push of Black sets no en-passant square
MovePawnWhiteOnly(b, mv, p) ==
    IF p.kind # Pawn THEN b
    ELSE IF p.color = White /\ mv.from.row = 1 /\ mv.to.row = 3
        THEN [b EXCEPT !.en_passant = Some(ChessField(2, mv.from.col))]
    ELSE IF IsSome(mv.promotion) THEN MovePromote(b, mv, p)
    ELSE b

\* lines 227-244: a double push sets the en-passant square, else a promotion
MovePawn(b, mv, p) ==
    IF p.kind # Pawn THEN b
    ELSE IF p.color = White /\ mv.from.row = 1 /\ mv.to.row = 3
        THEN [b EXCEPT !.en_passant = Some(ChessField(2, mv.from.col))]
    ELSE IF p.color = Black /\ mv.from.row = 6 /\ mv.to.row = 4
        THEN [b EXCEPT !.en_passant = Some(ChessField(5, mv.from.col))]
    ELSE IF IsSome(mv.promotion) THEN MovePromote(b, mv, p)
    ELSE b

\* lines 126-245: the arm Square::Occupied(p)
MoveOccupied(b, mv, p) ==
    MovePawn(
     MoveRights(
      MoveCastling(
       MoveEnPassant(
        MovePlace(
         MoveCapture(
          MoveLift(
           MoveClock(b, mv, p),
           mv, p),
          mv),
         mv, p),
        mv, p),
       mv, p),
      mv),
     mv, p)

\* lines 248-262: the side to move, the move number and the hash's last terms
MoveFinish(b) ==
    [b EXCEPT !.active_color = opposite(b.active_color),
              !.fullmove_number = IF b.active_color = Black
                                      THEN U8Inc(b.fullmove_number) ELSE b.fullmove_number,
              !.hash = update_enpassing(
                           update_active_side(update_castling(b.hash, b.castling_rights)),
                           b.en_passant)]

\* ChessBoard::make_move
\* lines 124-125: the castling rights leave the hash before the move
MoveStart(self) ==
    [self EXCEPT !.hash = update_castling(self.hash, self.castling_rights)]

\* lines 126-247: the piece on the origin square moves; an empty origin only
\* clears the en-passant square
MoveSquare(b, mv, piece) ==
    IF IsOccupied(piece) THEN MoveOccupied(b, mv, piece) ELSE ClearEnPassant(b)

\* ChessBoard::make_move
make_move(self, mv) == MoveFinish(MoveSquare(MoveStart(self), mv, SquareAt(self, mv.from)))

-----------------------------------------------------------------------------
(* chess_board.rs: attack detection *)

OnBoard(r, c) == r >= 0 /\ r < 8 /\ c >= 0 /\ c < 8

\* the first occupied square on the ray from (row, col) in direction (dx, dy),
\* or Empty when the ray leaves the board
RECURSIVE FirstOnRay(_, _, _, _, _)
FirstOnRay(b, row, col, dx, dy) ==
    LET new_row == row + dx
        new_col == col + dy
    IN  IF ~OnBoard(new_row, new_col) THEN Empty
        ELSE IF IsOccupied(b.squares[new_row][new_col]) THEN b.squares[new_row][new_col]
        ELSE FirstOnRay(b, new_row, new_col, dx, dy)

DIRECTIONS ==
    <<<<-1, 0>>, <<1, 0>>, <<0, -1>>, <<0, 1>>, <<-1, -1>>, <<-1, 1>>, <<1, -1>>, <<1, 1>>>>

RayAttack(b, row, col, opponent_color, d) ==
    LET piece == FirstOnRay(b, row, col, d[1], d[2])
        is_diagonal == d[1] # 0 /\ d[2] # 0
        is_orthogonal == d[1] = 0 \/ d[2] = 0
    IN  /\ IsOccupied(piece)
        /\ piece.color = opponent_color
        /\ \/ piece.kind = Rook /\ is_orthogonal
           \/ piece.kind = Bishop /\ is_diagonal
           \/ piece.kind = Queen

check_attack(b, row, col, opponent_color, directions, piece_type) ==
    \E i \in 1..Len(directions) :
        LET new_row == row + directions[i][1]
            new_col == col + directions[i][2]
        IN  /\ OnBoard(new_row, new_col)
            /\ b.squares[new_row][new_col] = Piece(opponent_color, piece_type)

is_square_attacked_by_color(b, row, col, opponent_color) ==
    LET pawn_attacks == IF opponent_color = Black THEN <<<<1, -1>>, <<1, 1>>>>
                        ELSE <<<<-1, -1>>, <<-1, 1>>>>
        indexes == PiecesOf(b, opponent_color)
        position == PositionsOf(b, opponent_color)
        ki == get_piece_type_index(Knight)
        king == find_king_position(b, opponent_color)
    IN  \/ \E i \in 1..8 : RayAttack(b, row, col, opponent_color, DIRECTIONS[i])
        \/ check_attack(b, row, col, opponent_color, pawn_attacks, Pawn)
        \/ \E i \in 0..15 :
              /\ i >= indexes[ki] /\ i < indexes[ki + 1]
              /\ (position[i].row - row) * (position[i].row - row)
                   + (position[i].col - col) * (position[i].col - col) = 5
        \/ /\ IsSome(king)
           /\ Unwrap(king).row - row > -2 /\ Unwrap(king).row - row < 2
           /\ Unwrap(king).col - col > -2 /\ Unwrap(king).col - col < 2

\* a faulty variant: no square counts as attacked
NeverAttacked(b, row, col) == FALSE

is_square_attacked(b, row, col) ==
    is_square_attacked_by_color(b, row, col, opposite(b.active_color))

-----------------------------------------------------------------------------
(* move_generation.rs *)

NO_CAPTURE == 0
CAPTURE == 10000
CAPTURE_BASE == CAPTURE + 10
CASTLING_SCORE == 50
BEST_MOVE == 1000000

get_piece_value(k) ==
    CASE k = Pawn -> 1 [] k = Knight -> 3 [] k = Bishop -> 3
      [] k = Rook -> 5 [] k = Queen -> 9 [] k = King -> 15

compute_capture_score_tenfold(b, mv) ==
    LET moving_piece == SquareAt(b, mv.from)
        captured_piece == SquareAt(b, mv.to)
    IN  IF IsOccupied(moving_piece) /\ IsOccupied(captured_piece)
            THEN CAPTURE_BASE
                 + 1000 * (get_piece_value(captured_piece.kind) - get_piece_value(moving_piece.kind))
                 + 10 * get_piece_value(captured_piece.kind)
            ELSE NO_CAPTURE

compute_capture_score(b, mv) ==
    LET moving_piece == SquareAt(b, mv.from)
        captured_piece == SquareAt(b, mv.to)
    IN  IF IsOccupied(moving_piece) /\ IsOccupied(captured_piece)
            THEN CAPTURE_BASE
                 + 1000 * (get_piece_value(captured_piece.kind) - get_piece_value(moving_piece.kind))
                 + 10 * get_piece_value(captured_piece.kind)
                 - get_piece_value(captured_piece.kind)
            ELSE NO_CAPTURE

PromotionKinds == <<Queen, Rook, Bishop, Knight>>

add_pawn_moves_queen_only(mv, promotion_row, score) ==
    IF mv.to.row = promotion_row
        THEN <<<<score + 1, with_promotion(mv, Queen)>>>>
        ELSE <<<<score, mv>>>>

add_pawn_moves_with_and_without_promotion(mv, promotion_row, score) ==
    IF mv.to.row = promotion_row
        THEN [i \in 1..4 |-> <<score + 1, with_promotion(mv, PromotionKinds[i])>>]
        ELSE <<<<score, mv>>>>

\* one diagonal pawn capture, towards column col + dx
PawnCapture(b, row, col, new_row, dx, promotion_row) ==
    LET new_col == col + dx
    IN  IF new_col < 0 \/ new_col >= 8 THEN << >>
        ELSE IF IsOccupied(b.squares[new_row][new_col])
                /\ b.squares[new_row][new_col].color # b.active_color
            THEN add_pawn_moves_with_and_without_promotion(
                     Move(row, col, new_row, new_col), promotion_row,
                     compute_capture_score(b, Move(row, col, new_row, new_col)))
        ELSE << >>

\* A pawn on its last rank makes the code index squares[8] (or [-1]) and stop
\* with a panic; such a pawn has no move here.
generate_pawn_moves(b, row, col) ==
    LET forward == IF b.active_color = White THEN 1 ELSE -1
        start_row == IF b.active_color = White THEN 1 ELSE 6
        promotion_row == IF b.active_color = White THEN 7 ELSE 0
        new_row == row + forward
        two_forward == row + 2 * forward
        push == IF b.squares[new_row][col] = Empty
                    THEN add_pawn_moves_with_and_without_promotion(
                             Move(row, col, new_row, col), promotion_row, NO_CAPTURE)
                         \o (IF row = start_row /\ b.squares[two_forward][col] = Empty
                                 THEN <<<<NO_CAPTURE, Move(row, col, two_forward, col)>>>>
                                 ELSE << >>)
                    ELSE << >>
        ep == IF IsSome(b.en_passant)
                 /\ new_row = Unwrap(b.en_passant).row
                 /\ (col - Unwrap(b.en_passant).col = 1 \/ Unwrap(b.en_passant).col - col = 1)
                  THEN LET mv == Move(row, col, Unwrap(b.en_passant).row, Unwrap(b.en_passant).col)
                       IN  <<<<compute_capture_score(b, mv), mv>>>>
                  ELSE << >>
    IN  IF new_row < 0 \/ new_row > 7 THEN << >>
        ELSE push
             \o PawnCapture(b, row, col, new_row, -1, promotion_row)
             \o PawnCapture(b, row, col, new_row, 1, promotion_row)
             \o ep

\* the move to (new_row, new_col), if it is on the board and not onto an own piece
StepMove(b, row, col, new_row, new_col) ==
    IF ~OnBoard(new_row, new_col) THEN << >>
    ELSE IF b.squares[new_row][new_col] = Empty
        THEN <<<<NO_CAPTURE, Move(row, col, new_row, new_col)>>>>
    ELSE IF b.squares[new_row][new_col].color # b.active_color
        THEN <<<<compute_capture_score(b, Move(row, col, new_row, new_col)),
                 Move(row, col, new_row, new_col)>>>>
    ELSE << >>

RECURSIVE StepsFrom(_, _, _, _, _)
StepsFrom(b, row, col, directions, i) ==
    IF i > Len(directions) THEN << >>
    ELSE StepMove(b, row, col, row + directions[i][1], col + directions[i][2])
         \o StepsFrom(b, row, col, directions, i + 1)

generate_moves_from_directions(b, row, col, directions) ==
    IF ~IsOccupied(b.squares[row][col]) THEN << >>
    ELSE StepsFrom(b, row, col, directions, 1)

\* the moves along one ray, from the square after (cur_row, cur_col)
RECURSIVE Slide(_, _, _, _, _, _, _)
Slide(b, row, col, cur_row, cur_col, dx, dy) ==
    LET new_row == cur_row + dx
        new_col == cur_col + dy
    IN  IF ~OnBoard(new_row, new_col) THEN << >>
        ELSE IF b.squares[new_row][new_col] = Empty
            THEN <<<<NO_CAPTURE, Move(row, col, new_row, new_col)>>>>
                 \o Slide(b, row, col, new_row, new_col, dx, dy)
        ELSE StepMove(b, row, col, new_row, new_col)

RECURSIVE SlidesFrom(_, _, _, _, _)
SlidesFrom(b, row, col, directions, i) ==
    IF i > Len(directions) THEN << >>
    ELSE Slide(b, row, col, row, col, directions[i][1], directions[i][2])
         \o SlidesFrom(b, row, col, directions, i + 1)

generate_sliding_moves(b, row, col, directions) ==
    IF ~IsOccupied(b.squares[row][col]) THEN << >>
    ELSE SlidesFrom(b, row, col, directions, 1)

KNIGHT_MOVES ==
    <<<<-2, -1>>, <<-1, -2>>, <<1, -2>>, <<2, -1>>, <<2, 1>>, <<1, 2>>, <<-1, 2>>, <<-2, 1>>>>

BISHOP_DIRECTIONS == <<<<-1, -1>>, <<-1, 1>>, <<1, -1>>, <<1, 1>>>>

ROOK_DIRECTIONS == <<<<0, -1>>, <<0, 1>>, <<-1, 0>>, <<1, 0>>>>

QUEEN_DIRECTIONS ==
    <<<<-1, -1>>, <<-1, 1>>, <<1, -1>>, <<1, 1>>, <<0, -1>>, <<0, 1>>, <<-1, 0>>, <<1, 0>>>>

KING_MOVES ==
    <<<<-1, -1>>, <<-1, 0>>, <<-1, 1>>, <<0, -1>>, <<0, 1>>, <<1, -1>>, <<1, 0>>, <<1, 1>>>>

\* a faulty variant of generate_knight_moves: a knight steps like a king
KnightStepsLikeKing(b, row, col) == generate_moves_from_directions(b, row, col, KING_MOVES)

generate_knight_moves(b, row, col) == generate_moves_from_directions(b, row, col, KNIGHT_MOVES)

generate_bishop_moves(b, row, col) == generate_sliding_moves(b, row, col, BISHOP_DIRECTIONS)

generate_rook_moves(b, row, col) == generate_sliding_moves(b, row, col, ROOK_DIRECTIONS)

generate_queen_moves(b, row, col) == generate_sliding_moves(b, row, col, QUEEN_DIRECTIONS)

generate_king_moves(b, row, col) ==
    LET castling_rank == IF b.active_color = White THEN 0 ELSE 7
        kingside ==
            IF /\ b.castling_rights[IF b.active_color = White THEN 0 ELSE 2]
               /\ b.squares[row][5] = Empty
               /\ b.squares[row][6] = Empty
               /\ ~is_square_attacked(b, row, 4)
               /\ ~is_square_attacked(b, row, 5)
               /\ ~is_square_attacked(b, row, 6)
                THEN <<<<CASTLING_SCORE, Move(row, 4, row, 6)>>>> ELSE << >>
        queenside ==
            IF /\ b.castling_rights[IF b.active_color = White THEN 1 ELSE 3]
               /\ b.squares[row][3] = Empty
               /\ b.squares[row][2] = Empty
               /\ b.squares[row][1] = Empty
               /\ ~is_square_attacked(b, row, 4)
               /\ ~is_square_attacked(b, row, 3)
               /\ ~is_square_attacked(b, row, 2)
                THEN <<<<CASTLING_SCORE, Move(row, 4, row, 2)>>>> ELSE << >>
    IN  generate_moves_from_directions(b, row, col, KING_MOVES)
        \o (IF row = castling_rank /\ col = 4 THEN kingside \o queenside ELSE << >>)

generate_pseudo_moves_from_position(b, row, col) ==
    LET piece == b.squares[row][col]
    IN  IF IsOccupied(piece) /\ piece.color = b.active_color
            THEN CASE piece.kind = Pawn -> generate_pawn_moves(b, row, col)
                   [] piece.kind = Knight -> generate_knight_moves(b, row, col)
                   [] piece.kind = Bishop -> generate_bishop_moves(b, row, col)
                   [] piece.kind = Rook -> generate_rook_moves(b, row, col)
                   [] piece.kind = Queen -> generate_queen_moves(b, row, col)
                   [] piece.kind = King -> generate_king_moves(b, row, col)
            ELSE << >>

\* pieces_with_coordinates: the fields of the active colour's piece list that
\* hold a piece, in list order
RECURSIVE ListedFields(_, _)
ListedFields(b, i) ==
    IF i >= PiecesOf(b, b.active_color)[6] THEN << >>
    ELSE LET field == PositionsOf(b, b.active_color)[i]
         IN  (IF IsOccupied(SquareAt(b, field)) THEN <<field>> ELSE << >>)
             \o ListedFields(b, i + 1)

pieces_with_coordinates(b) == ListedFields(b, 0)

RECURSIVE PseudoFrom(_, _, _)
PseudoFrom(b, fields, i) ==
    IF i > Len(fields) THEN << >>
    ELSE generate_pseudo_moves_from_position(b, fields[i].row, fields[i].col)
         \o PseudoFrom(b, fields, i + 1)

generate_pseudo_moves(b) == PseudoFrom(b, pieces_with_coordinates(b), 1)

\* the test of generate_legal_moves: after the move the mover still has a king
\* and the side now to move does not attack it
\* a faulty variant of the test: every move passes
KingAlwaysSafe(board_clone, king_position) == TRUE

KingNotAttacked(board_clone, king_position) ==
    /\ IsSome(king_position)
    /\ ~is_square_attacked_by_color(board_clone, Unwrap(king_position).row,
                                    Unwrap(king_position).col, board_clone.active_color)

\* a faulty variant: only the presence of the mover's king is tested
KingPresentOn(board_clone, color) == IsSome(find_king_position(board_clone, color))

KingSafeOn(board_clone, color) ==
    KingNotAttacked(board_clone, find_king_position(board_clone, color))

KeepsKingSafe(b, mv) == KingSafeOn(make_move(b, mv), b.active_color)

\* lines 302-319: the scored pseudo-legal moves that pass the test, in order
FilterLegal(b, moves) == SelectSeq(moves, LAMBDA m : KeepsKingSafe(b, m[2]))

compute_move_weights(moves, guess_of_best_move) ==
    [i \in 1..Len(moves) |->
        IF IsSome(guess_of_best_move) /\ moves[i][2] = Unwrap(guess_of_best_move)
            THEN <<BEST_MOVE, moves[i][2]>> ELSE moves[i]]

\* derive(Ord) on Move: from (row, col), to (row, col), promotion (None first)
MoveOrd(mv) ==
    (((mv.from.row * 8 + mv.from.col) * 8 + mv.to.row) * 8 + mv.to.col) * 8
    + (IF IsSome(mv.promotion) THEN 1 + PieceTypeOrd(Unwrap(mv.promotion)) ELSE 0)

\* the order of (i32, Move): the score, then the move
ScoredMoveOrd(m) == m[1] * 32768 + MoveOrd(m[2])

SortDescendingKeepsOrder(moves) == moves

\* sort_unstable_by(|a, b| b.cmp(a)): descending in (score, move), a total order
SortDescending(moves) ==
    SortSeq(moves, LAMBDA x, y : ScoredMoveOrd(x) > ScoredMoveOrd(y))

\* the moves of a list of scored moves
MovesOf(scored) == [i \in 1..Len(scored) |-> scored[i][2]]

generate_legal_moves(b, guess_of_best_move) ==
    MovesOf(SortDescending(
        compute_move_weights(FilterLegal(b, generate_pseudo_moves(b)), guess_of_best_move)))

-----------------------------------------------------------------------------
(* perft.rs *)

RECURSIVE perft(_, _)
RECURSIVE PerftMoves(_, _, _)
RECURSIVE PerftSum(_, _, _, _, _)
\* lines 9-13: the sum over moves[lo..hi] of the counts below each move
PerftSum(b, moves, lo, hi, depth) ==
    IF lo > hi THEN 0
    ELSE IF lo = hi THEN perft(make_move(b, moves[lo]), depth - 1)
    ELSE PerftSum(b, moves, lo, (lo + hi) \div 2, depth)
         + PerftSum(b, moves, (lo + hi) \div 2 + 1, hi, depth)

PerftMoves(b, moves, depth) == PerftSum(b, moves, 1, Len(moves), depth)

perft(b, depth) ==
    IF depth = 0 THEN 1
    ELSE PerftMoves(b, generate_legal_moves(b, None), depth)

-----------------------------------------------------------------------------
(* model.rs: moves in coordinate notation *)

\* the byte distance of a file letter from 'a' and of a rank digit from '1'
FileIndex(ch) == IndexOf(Files, ch)

RankIndex(ch) == IndexOf(Ranks, ch)

\* ChessField::from_algebraic
field_from_algebraic(algebraic) ==
    ChessField(RankIndex(algebraic[2]), FileIndex(algebraic[1]))

PromotionOfChar(ch) ==
    CASE ch \in {"Q", "q"} -> Some(Queen)
      [] ch \in {"R", "r"} -> Some(Rook)
      [] ch \in {"B", "b"} -> Some(Bishop)
      [] ch \in {"N", "n"} -> Some(Knight)
      [] OTHER -> None

\* a faulty variant: the promotion letter is not read
from_algebraic_squares(algebraic) ==
    [from |-> field_from_algebraic(SubSeq(algebraic, 1, 2)),
     to |-> field_from_algebraic(SubSeq(algebraic, 3, 4)),
     promotion |-> None]

\* Move::from_algebraic
from_algebraic(algebraic) ==
    [from |-> field_from_algebraic(SubSeq(algebraic, 1, 2)),
     to |-> field_from_algebraic(SubSeq(algebraic, 3, 4)),
     promotion |-> IF Len(algebraic) > 4 THEN PromotionOfChar(algebraic[5]) ELSE None]

\* impl Display for PieceType, model.rs lines 53-64
PieceTypeText(k) ==
    CASE k = Pawn -> "P" [] k = Knight -> "N" [] k = Bishop -> "B"
      [] k = Rook -> "R" [] k = Queen -> "Q" [] k = King -> "K"

\* str::to_lowercase on one of these letters
ToLowercase(ch) ==
    CASE ch = "P" -> "p" [] ch = "N" -> "n" [] ch = "B" -> "b"
      [] ch = "R" -> "r" [] ch = "Q" -> "q" [] ch = "K" -> "k"
      [] OTHER -> ch

\* Move::as_algebraic
as_algebraic(mv) ==
    to_algebraic_square(mv.from.row, mv.from.col)
    \o to_algebraic_square(mv.to.row, mv.to.col)
    \o (IF IsSome(mv.promotion)
            THEN <<ToLowercase(PieceTypeText(Unwrap(mv.promotion)))>> ELSE << >>)

-----------------------------------------------------------------------------
(* move_generation.rs: capture moves; chess_board.rs: mate and stalemate *)

CapturesFromAnyMove(b, field) ==
    IF IsOccupied(SquareAt(b, field)) /\ SquareAt(b, field).color = b.active_color
        THEN generate_pseudo_moves_from_position(b, field.row, field.col)
        ELSE << >>

\* lines 344-357: the pseudo-legal moves from `field` that take an opposing piece
CapturesFrom(b, field) ==
    IF IsOccupied(SquareAt(b, field)) /\ SquareAt(b, field).color = b.active_color
        THEN SelectSeq(generate_pseudo_moves_from_position(b, field.row, field.col),
                       LAMBDA m : /\ IsOccupied(SquareAt(b, m[2].to))
                                  /\ SquareAt(b, m[2].to).color # b.active_color)
        ELSE << >>

RECURSIVE CapturesOver(_, _, _)
CapturesOver(b, fields, i) ==
    IF i > Len(fields) THEN << >>
    ELSE CapturesFrom(b, fields[i]) \o CapturesOver(b, fields, i + 1)

\* sort_unstable_by(|a, b| b.0.cmp(&a.0)): descending in the score alone; up
\* to 20 elements the sort is an insertion sort, which keeps equal scores in
\* their order
SortByScore(moves) == SortSeq(moves, LAMBDA x, y : x[1] > y[1])

generate_capture_moves(b) ==
    MovesOf(SortByScore(CapturesOver(b, pieces_with_coordinates(b), 1)))

generate_legal_capture_moves_unfiltered(b) == generate_capture_moves(b)

generate_legal_capture_moves(b) ==
    SelectSeq(generate_capture_moves(b), LAMBDA mv : KeepsKingSafe(b, mv))

\* the active colour has a king and it is attacked
InCheck(b, king_position) ==
    /\ IsSome(king_position)
    /\ is_square_attacked(b, Unwrap(king_position).row, Unwrap(king_position).col)

\* the active colour has a king and it is not attacked
NotInCheck(b, king_position) ==
    /\ IsSome(king_position)
    /\ ~is_square_attacked(b, Unwrap(king_position).row, Unwrap(king_position).col)

is_stalemate(b) ==
    /\ NotInCheck(b, find_king_position(b, b.active_color))
    /\ Len(generate_legal_moves(b, None)) = 0

is_checkmate(b) ==
    /\ InCheck(b, find_king_position(b, b.active_color))
    /\ Len(generate_legal_moves(b, None)) = 0

-----------------------------------------------------------------------------
(* engine_alpha_beta.rs: constants and evaluation *)

MAX_PLY == 20

\* i32::MIN + 1
MIN_EVALUATION == -2147483647

\* i32::MIN
I32_MIN == -2147483647 - 1

WIN == 10000000

LOSS == -10000000

DRAW == 0

PAWN_SQUARE_TABLE ==
    << <<  0,   0,   0,    0,    0,   0,   0,   0>>,
       <<100, 100, 100,  100,  100, 100, 100, 100>>,
       << 25,  50,  50,   50,   50,  50,  50,  25>>,
       <<  0,   0,   0,    2,    2,   0,   0,   0>>,
       <<  0,   0,  20,   25,   25,  20,   0,   0>>,
       <<  0,   0,  15,   10,   10,  15,   0,   0>>,
       <<  0,   0,   0, -250, -250,   0,   0,   0>>,
       <<  0,   0,   0,    0,    0,   0,   0,   0>> >>

KNIGHT_SQUARE_TABLE ==
    << <<-200, -100, -100, -100, -100, -100, -100, -200>>,
       <<-100,    0,    0,    0,    0,    0,    0, -100>>,
       <<-100,    0,   50,   50,   50,   50,    0, -100>>,
       <<-100,    0,   50,  100,  150,   50,    0, -100>>,
       <<-100,    0,   50,  100,  100,   50,    0, -100>>,
       <<-100,    0,   50,   50,   50,   50,    0, -100>>,
       <<-100,    0,    0,    0,    0,    0,    0, -100>>,
       <<-200, -100, -100, -100, -100, -100, -100, -200>> >>

BISHOP_SQUARE_TABLE ==
    << <<-200, -100, -100, -100, -100, -100, -100, -200>>,
       <<-100,    0,    0,    0,    0,    0,    0, -100>>,
       <<-100,    0,   50,   50,   50,   50,    0, -100>>,
       <<-100,    0,   50,  100,  150,   50,    0, -100>>,
       <<-100,    0,   50,  100,  100,   50,    0, -100>>,
       <<-100,    0,   50,   50,   50,   50,    0, -100>>,
       <<-100,   25,    0,    0,    0,   25,    0, -100>>,
       <<-200, -100, -100, -100, -100, -100, -100, -200>> >>

KING_SQUARE_TABLE ==
    << <<-100, -100, -100, -100, -100, -100, -100, -100>>,
       <<-100, -100, -100, -100, -100, -100, -100, -100>>,
       <<-100, -100, -100, -100, -100, -100, -100, -100>>,
       <<-100, -100, -100, -100, -100, -100, -100, -100>>,
       <<-100, -100, -100, -100, -100, -100, -100, -100>>,
       <<-100, -100, -100, -100, -100, -100, -100, -100>>,
       << -50,  -50,  -50,  -50,  -50, -500,  -50,  -50>>,
       << 300,  350,  400,  -50,    0,  -50,  500,  300>> >>

\* lines 383-390
PieceValue(kind) ==
    CASE kind = Pawn -> 1000 [] kind = Knight -> 3000 [] kind = Bishop -> 3000
      [] kind = Rook -> 5000 [] kind = Queen -> 9000 [] kind = King -> WIN

\* lines 393-404: the tables are read from the piece's own side
PositionValue(piece, row, col) ==
    CASE piece.kind = King -> KING_SQUARE_TABLE[(IF piece.color = White THEN 7 - row ELSE row) + 1][col + 1]
      [] piece.kind = Pawn -> PAWN_SQUARE_TABLE[(IF piece.color = White THEN 7 - row ELSE row) + 1][col + 1]
      [] piece.kind = Knight -> KNIGHT_SQUARE_TABLE[(IF piece.color = White THEN 7 - row ELSE row) + 1][col + 1]
      [] piece.kind = Bishop -> BISHOP_SQUARE_TABLE[(IF piece.color = White THEN 7 - row ELSE row) + 1][col + 1]
      [] OTHER -> 0

\* lines 381-413: what one square adds to the evaluation
EvaluateSquare(b, row, col) ==
    IF ~IsOccupied(b.squares[row][col]) THEN 0
    ELSE IF b.squares[row][col].color = White
        THEN PieceValue(b.squares[row][col].kind) + PositionValue(b.squares[row][col], row, col)
        ELSE 0 - (PieceValue(b.squares[row][col].kind) + PositionValue(b.squares[row][col], row, col))

EvaluateRow(b, row) ==
    EvaluateSquare(b, row, 0) + EvaluateSquare(b, row, 1) + EvaluateSquare(b, row, 2)
    + EvaluateSquare(b, row, 3) + EvaluateSquare(b, row, 4) + EvaluateSquare(b, row, 5)
    + EvaluateSquare(b, row, 6) + EvaluateSquare(b, row, 7)

evaluate_board(b) ==
    EvaluateRow(b, 0) + EvaluateRow(b, 1) + EvaluateRow(b, 2) + EvaluateRow(b, 3)
    + EvaluateRow(b, 4) + EvaluateRow(b, 5) + EvaluateRow(b, 6) + EvaluateRow(b, 7)

\* line 294-295: the evaluation from the side to move
StandPat(b) == evaluate_board(b) * (IF b.active_color = White THEN 1 ELSE -1)

-----------------------------------------------------------------------------
(* engine_alpha_beta.rs: the repetition map and the principal variation *)

\* BTreeMap<u64, u8> is a function from the hashes it holds to their counts
EmptyMap == << >>

MapCount(map, hash) == IF hash \in DOMAIN map THEN map[hash] ELSE 0

MapPut(map, hash, count) ==
    [h \in DOMAIN map \cup {hash} |-> IF h = hash THEN count ELSE map[h]]

MapDrop(map, hash) == [h \in DOMAIN map \ {hash} |-> map[h]]

insert_hash(map, hash) == MapPut(map, hash, U8Inc(MapCount(map, hash)))

remove_hash(map, hash) ==
    IF hash \notin DOMAIN map THEN map
    ELSE IF map[hash] > 1 THEN MapPut(map, hash, map[hash] - 1)
    ELSE MapDrop(map, hash)

\* [([Move; MAX_PLY], usize); MAX_PLY] of AlphaBetaEngine::new
NewPrincipalVariation ==
    [ply \in 0..(MAX_PLY - 1) |->
        [moves |-> [i \in 0..(MAX_PLY - 1) |-> Move(99, 99, 99, 99)], len |-> 0]]

ClearVariationKeepsLine(pv, ply) == pv

\* principal_variation[ply].1 = 0
ClearVariation(pv, ply) == [pv EXCEPT ![ply].len = 0]

save_principal_variation(pv, mv, depth, ply) ==
    [pv EXCEPT ![ply] =
        [moves |-> [i \in 0..(MAX_PLY - 1) |->
                       IF i = 0 THEN mv
                       ELSE IF i - 1 < pv[ply + 1].len THEN pv[ply + 1].moves[i - 1]
                       ELSE pv[ply].moves[i]],
         len |-> pv[ply + 1].len + 1]]

\* principal_variation[0].0[0..principal_variation[0].1].to_vec()
BestLine(pv) == [i \in 1..pv[0].len |-> pv[0].moves[i - 1]]

-----------------------------------------------------------------------------
(* The positions the repository's tests start from *)

\* rnbqkbnr/pppppppp/8/8/8/8/PPPPPPPP/RNBQKBNR w KQkq - 0 1   (fen.rs:5)
INITIAL_POSITION ==
    <<"r", "n", "b", "q", "k", "b", "n", "r", "/", "p", "p", "p", "p", "p", "p", "p", "p",
      "/", "8", "/", "8", "/", "8", "/", "8", "/", "P", "P", "P", "P", "P", "P", "P", "P",
      "/", "R", "N", "B", "Q", "K", "B", "N", "R", " ", "w", " ", "K", "Q", "k", "q", " ",
      "-", " ", "0", " ", "1">>

\* r3k2r/p1ppqpb1/bn2pnp1/3PN3/1p2P3/2N2Q1p/PPPBBPPP/R3K2R w KQkq - 0 1   (perft.rs test_perft2)
FEN_PERFT2 ==
    <<"r", "3", "k", "2", "r", "/", "p", "1", "p", "p", "q", "p", "b", "1", "/", "b", "n",
      "2", "p", "n", "p", "1", "/", "3", "P", "N", "3", "/", "1", "p", "2", "P", "3", "/",
      "2", "N", "2", "Q", "1", "p", "/", "P", "P", "P", "B", "B", "P", "P", "P", "/", "R",
      "3", "K", "2", "R", " ", "w", " ", "K", "Q", "k", "q", " ", "-", " ", "0", " ", "1">>

\* 8/2p5/3p4/KP5r/1R3p1k/8/4P1P1/8 w - - 0 1   (perft.rs test_perft3)
FEN_PERFT3 ==
    <<"8", "/", "2", "p", "5", "/", "3", "p", "4", "/", "K", "P", "5", "r", "/", "1", "R",
      "3", "p", "1", "k", "/", "8", "/", "4", "P", "1", "P", "1", "/", "8", " ", "w", " ",
      "-", " ", "-", " ", "0", " ", "1">>

\* r3k2r/Pppp1ppp/1b3nbN/nP6/BBP1P3/q4N2/Pp1P2PP/R2Q1RK1 w kq - 0 1   (perft.rs test_perft4w, chess_board.rs test_hashing_recursive)
FEN_PERFT4W ==
    <<"r", "3", "k", "2", "r", "/", "P", "p", "p", "p", "1", "p", "p", "p", "/", "1", "b",
      "3", "n", "b", "N", "/", "n", "P", "6", "/", "B", "B", "P", "1", "P", "3", "/", "q",
      "4", "N", "2", "/", "P", "p", "1", "P", "2", "P", "P", "/", "R", "2", "Q", "1", "R",
      "K", "1", " ", "w", " ", "k", "q", " ", "-", " ", "0", " ", "1">>

\* r3k3/1b4P1/n7/7n/1p6/Q7/2P3N1/4K2R w Kq - 0 1   (chess_board.rs test_piece_position)
FEN_PIECE_POSITION ==
    <<"r", "3", "k", "3", "/", "1", "b", "4", "P", "1", "/", "n", "7", "/", "7", "n", "/",
      "1", "p", "6", "/", "Q", "7", "/", "2", "P", "3", "N", "1", "/", "4", "K", "2", "R",
      " ", "w", " ", "K", "q", " ", "-", " ", "0", " ", "1">>

StartFens == {INITIAL_POSITION, FEN_PERFT2, FEN_PERFT3, FEN_PERFT4W, FEN_PIECE_POSITION}

-----------------------------------------------------------------------------
(* uci.rs: the command parsers *)

STARTPOS == <<"s", "t", "a", "r", "t", "p", "o", "s">>

FEN == <<"f", "e", "n">>

MOVES == <<"m", "o", "v", "e", "s">>

WTIME == <<"w", "t", "i", "m", "e">>

BTIME == <<"b", "t", "i", "m", "e">>

MOVESTOGO == <<"m", "o", "v", "e", "s", "t", "o", "g", "o">>

WINC == <<"w", "i", "n", "c">>

BINC == <<"b", "i", "n", "c">>

\* str::parse::<u64>: an optional '+', then at least one digit.  The tokens
\* of the model have at most nine digits, so every value fits an integer here
RECURSIVE DecimalU64(_, _, _)
DecimalU64(s, i, acc) ==
    IF i > Len(s) THEN acc ELSE DecimalU64(s, i + 1, acc * 10 + to_digit(s[i]))

parse_u64(s) ==
    LET body == IF Len(s) > 0 /\ s[1] = "+" THEN SubSeq(s, 2, Len(s)) ELSE s
    IN  IF Len(body) = 0 \/ Len(body) > 9 \/ \E i \in 1..Len(body) : ~is_ascii_digit(body[i])
            THEN None
        ELSE Some(DecimalU64(body, 1, 0))

\* Vec<String>::join(" ")
RECURSIVE JoinFrom(_, _)
JoinFrom(v, i) ==
    IF i > Len(v) THEN << >>
    ELSE IF i = Len(v) THEN v[i]
    ELSE v[i] \o <<" ">> \o JoinFrom(v, i + 1)

Join(v) == JoinFrom(v, 1)

ErrPosition == [ok |-> FALSE, position |-> << >>, moves |-> << >>]

\* lines 124-137: after the position, nothing or the keyword `moves` and at
\* least one move; idx is the 0-based index of the token after the position
PositionMoves(tokens, position, idx) ==
    IF Len(tokens) = idx + 1 THEN ErrPosition
    ELSE IF Len(tokens) > idx + 1
        THEN IF tokens[idx + 1] # MOVES THEN ErrPosition
             ELSE [ok |-> TRUE, position |-> position,
                   moves |-> SubSeq(tokens, idx + 2, Len(tokens))]
    ELSE [ok |-> TRUE, position |-> position, moves |-> << >>]

\* tokens.iter().take(idx + 7).skip(idx + 1) with idx = 1: the 0-based tokens 2..7
FenTokens(tokens) == SubSeq(tokens, 3, IF Len(tokens) < 8 THEN Len(tokens) ELSE 8)

parse_position(tokens) ==
    IF Len(tokens) < 2 THEN ErrPosition
    ELSE IF tokens[2] = STARTPOS THEN PositionMoves(tokens, INITIAL_POSITION, 2)
    ELSE IF tokens[2] = FEN THEN PositionMoves(tokens, Join(FenTokens(tokens)), 8)
    ELSE ErrPosition

GoKey(token) ==
    CASE token = WTIME -> "wtime" [] token = BTIME -> "btime"
      [] token = MOVESTOGO -> "movestogo" [] token = WINC -> "winc"
      [] token = BINC -> "binc" [] OTHER -> ""

NoGoValues == [k \in {"wtime", "btime", "movestogo", "winc", "binc"} |-> None]

\* lines 151-187: a keyword that has a following token takes it as its value
\* (None when it is no number) and the scan steps over both
RECURSIVE ScanGo(_, _, _)
ScanGo(tokens, i, acc) ==
    IF i > Len(tokens) THEN acc
    ELSE IF GoKey(tokens[i]) # "" /\ i + 1 <= Len(tokens)
        THEN ScanGo(tokens, i + 2, [acc EXCEPT ![GoKey(tokens[i])] = parse_u64(tokens[i + 1])])
    ELSE ScanGo(tokens, i + 1, acc)

unwrap_or(o, default) == IF IsSome(o) THEN Unwrap(o) ELSE default

\* a Duration in milliseconds, or the panic of the arithmetic that computes it
Millis(n) == [panic |-> FALSE, millis |-> n]

\* 2^31 - 1: the largest integer of the model stands for a u64 that wrapped
\* around, which is longer than every time the model's clock reaches
WRAPPED_MILLIS == 2147483647

\* line 198: time_left_millis - 5 underflows below 5: a debug build panics, a
\* release build wraps around
SubtractFive(time_left_millis) ==
    IF time_left_millis >= 5 THEN {Millis(time_left_millis - 5)}
    ELSE {[panic |-> TRUE, millis |-> 0], Millis(WRAPPED_MILLIS)}

\* lines 195-203
TimeForMove(time_left_millis, time_for_this_move_ms) ==
    IF time_for_this_move_ms > time_left_millis THEN SubtractFive(time_left_millis)
    ELSE IF time_for_this_move_ms > 0 THEN {Millis(time_for_this_move_ms)}
    ELSE {Millis(5000)}

Max(a, b) == IF a > b THEN a ELSE b

\* lines 189-195
GoTimes(v, active_color) ==
    LET time_left_millis == unwrap_or(IF active_color = White THEN v["wtime"] ELSE v["btime"], 0)
        increment_milis == unwrap_or(IF active_color = White THEN v["winc"] ELSE v["binc"], 0)
        moves_to_go == Max(unwrap_or(v["movestogo"], 30), 1)
    IN  TimeForMove(time_left_millis, (time_left_millis \div moves_to_go) + increment_milis)

\* the set of the durations the builds of the program can return
parse_go_command(tokens, active_color) == GoTimes(ScanGo(tokens, 1, NoGoValues), active_color)

\* The command lines the driver reads in the model
\* position fen k7/p1p5/P1P5/8/8/p1p5/P1P5/1K6 w - - 0 1
LINE_BOXED ==
    <<<<"p", "o", "s", "i", "t", "i", "o", "n">>,
      <<"f", "e", "n">>,
      <<"k", "7", "/", "p", "1", "p", "5", "/", "P", "1", "P", "5", "/", "8", "/", "8", "/", "p", "1", "p", "5", "/", "P", "1", "P", "5", "/", "1", "K", "6">>,
      <<"w">>,
      <<"-">>,
      <<"-">>,
      <<"0">>,
      <<"1">>>>

\* position fen k7/p1p5/P1P5/8/8/p1p5/P1P5/1K6 w - - 0 1 moves b1a1 a8b8 a1b1 b8a8 b1a1 a8b8 a1b1
LINE_REPEATED ==
    <<<<"p", "o", "s", "i", "t", "i", "o", "n">>,
      <<"f", "e", "n">>,
      <<"k", "7", "/", "p", "1", "p", "5", "/", "P", "1", "P", "5", "/", "8", "/", "8", "/", "p", "1", "p", "5", "/", "P", "1", "P", "5", "/", "1", "K", "6">>,
      <<"w">>,
      <<"-">>,
      <<"-">>,
      <<"0">>,
      <<"1">>,
      <<"m", "o", "v", "e", "s">>,
      <<"b", "1", "a", "1">>,
      <<"a", "8", "b", "8">>,
      <<"a", "1", "b", "1">>,
      <<"b", "8", "a", "8">>,
      <<"b", "1", "a", "1">>,
      <<"a", "8", "b", "8">>,
      <<"a", "1", "b", "1">>>>

\* position fen 7k/5KQ1/8/8/8/8/8/8 b - - 0 1
LINE_MATED ==
    <<<<"p", "o", "s", "i", "t", "i", "o", "n">>,
      <<"f", "e", "n">>,
      <<"7", "k", "/", "5", "K", "Q", "1", "/", "8", "/", "8", "/", "8", "/", "8", "/", "8", "/", "8">>,
      <<"b">>,
      <<"-">>,
      <<"-">>,
      <<"0">>,
      <<"1">>>>

\* position fen k7/p1p5/P1P5/8/8/p1p5/P1P5/nK6 w - - 0 1
LINE_CAPTURE ==
    <<<<"p", "o", "s", "i", "t", "i", "o", "n">>,
      <<"f", "e", "n">>,
      <<"k", "7", "/", "p", "1", "p", "5", "/", "P", "1", "P", "5", "/", "8", "/", "8", "/", "p", "1", "p", "5", "/", "P", "1", "P", "5", "/", "n", "K", "6">>,
      <<"w">>,
      <<"-">>,
      <<"-">>,
      <<"0">>,
      <<"1">>>>

\* position fen k7/p1p5/P1P5/8/8/p1p5/P1P5/n2K4 b - - 0 1
LINE_KNIGHT ==
    <<<<"p", "o", "s", "i", "t", "i", "o", "n">>,
      <<"f", "e", "n">>,
      <<"k", "7", "/", "p", "1", "p", "5", "/", "P", "1", "P", "5", "/", "8", "/", "8", "/", "p", "1", "p", "5", "/", "P", "1", "P", "5", "/", "n", "2", "K", "4">>,
      <<"b">>,
      <<"-">>,
      <<"-">>,
      <<"0">>,
      <<"1">>>>

\* position fen k7/p1P5/P7/8/8/8/8/7K w - - 0 1
LINE_MATING ==
    <<<<"p", "o", "s", "i", "t", "i", "o", "n">>,
      <<"f", "e", "n">>,
      <<"k", "7", "/", "p", "1", "P", "5", "/", "P", "7", "/", "8", "/", "8", "/", "8", "/", "8", "/", "7", "K">>,
      <<"w">>,
      <<"-">>,
      <<"-">>,
      <<"0">>,
      <<"1">>>>

\* go wtime 30 btime 30
GO_ONE_MILLISECOND ==
    <<<<"g", "o">>,
      <<"w", "t", "i", "m", "e">>,
      <<"3", "0">>,
      <<"b", "t", "i", "m", "e">>,
      <<"3", "0">>>>

\* go wtime 5 btime 5 winc 10 binc 10
GO_NO_TIME ==
    <<<<"g", "o">>,
      <<"w", "t", "i", "m", "e">>,
      <<"5">>,
      <<"b", "t", "i", "m", "e">>,
      <<"5">>,
      <<"w", "i", "n", "c">>,
      <<"1", "0">>,
      <<"b", "i", "n", "c">>,
      <<"1", "0">>>>

PositionLines ==
    {LINE_BOXED, LINE_REPEATED, LINE_MATED, LINE_CAPTURE, LINE_KNIGHT, LINE_MATING}

GoLines == {GO_ONE_MILLISECOND, GO_NO_TIME}

-----------------------------------------------------------------------------
(* engine_alpha_beta.rs: the engine's entry points for a position *)
(* The file imports ChessBoard from crate::chess_board, the older board   *)
(* module, and reads board.hash, which only the board of                   *)
(* chess_boards/chess_board has.  The engine's board is therefore          *)
(* the board modelled above: from_fen, make_move, generate_legal_moves(b,  *)
(* None), generate_legal_capture_moves, is_checkmate and is_stalemate of   *)
(* chess_boards/chess_board.                                               *)

\* lines 56-59: the board of the FEN, and a map that holds it once
PositionSet(e, fen_result) ==
    IF fen_result.ok
        THEN [ok |-> TRUE, board |-> fen_result.board,
              map |-> insert_hash(EmptyMap, fen_result.board.hash)]
        ELSE [ok |-> FALSE, board |-> e.board, map |-> e.map]

set_position(e, position) == PositionSet(e, from_fen(position))

\* lines 64-68: a move that resets the halfmove clock resets the map
EngineMoved(moved, map) ==
    [ok |-> TRUE, board |-> moved,
     map |-> insert_hash(IF moved.halfmove_clock = 0 THEN EmptyMap ELSE map, moved.hash)]

\* ChessEngine::make_move of the engine
engine_make_move(e, move_algebraic_notation) ==
    EngineMoved(make_move(e.board, from_algebraic(move_algebraic_notation)), e.map)

RECURSIVE PlayMoves(_, _, _)
PlayMoves(e, moves, i) ==
    IF i > Len(moves) THEN e ELSE PlayMoves(engine_make_move(e, moves[i]), moves, i + 1)

\* uci.rs lines 49-52: a FEN that from_fen rejects panics in unwrap() with
\* the engine locked; otherwise the moves are made one after the other
PositionPlayed(e, moves, set) ==
    IF ~set.ok THEN [panic |-> TRUE, board |-> e.board, map |-> e.map]
    ELSE [panic |-> FALSE, board |-> PlayMoves(set, moves, 1).board,
          map |-> PlayMoves(set, moves, 1).map]

\* uci.rs lines 46-57: a line that does not parse changes nothing
PositionParsed(e, parsed) ==
    IF ~parsed.ok THEN [panic |-> FALSE, board |-> e.board, map |-> e.map]
    ELSE PositionPlayed(e, parsed.moves, set_position(e, parsed.position))

position_command(e, tokens) == PositionParsed(e, parse_position(tokens))

-----------------------------------------------------------------------------
(* engine_alpha_beta.rs: the search, one call frame per negamax or quiescence call *)

MaxGo == 1

MaxDepth == 2

MaxElapsed == 2

Workers == 1..MaxGo

NoMove == Move(99, 99, 99, 99)

\* the value a call has just returned: none, Some(None) or Some(Some(score))
NoRet == << >>

RetNone == <<None>>

IdleIterative ==
    [best_move |-> None, total_node_count |-> 0, depth |-> 0, time_limit |-> 0,
     remaining_time |-> 0]

IdleRoot ==
    [deadline |-> 0, moves |-> << >>, next |-> 1, mv |-> NoMove, alpha |-> MIN_EVALUATION,
     best_score |-> I32_MIN, best_move |-> None, node_count |-> 0, result |-> None,
     entry_map |-> EmptyMap, entry_board |-> NewBoard]

NoReturn ==
    [kind |-> "none", ply |-> 0, entry_map |-> EmptyMap, entry_count |-> 0, value |-> None,
     expired |-> FALSE, generated |-> FALSE, recursed |-> FALSE, origin_ply |-> 0,
     origin_kind |-> "none"]

NewWorker == [pc |-> "unborn", time_limit |-> 0, stopped |-> FALSE, bestmove |-> << >>, infos |-> 0]

\* a call that has not yet run its first line.  `caller` is the function
\* whose return the return of this call is (negamax for the quiescence call
\* negamax ends with); entry_map and entry_count record the map at the call
Frame(kind, caller, b, depth, alpha, beta, ply, entry_map) ==
    [kind |-> kind, caller |-> caller, board |-> b, depth |-> depth, alpha |-> alpha,
     beta |-> beta, ply |-> ply, hash |-> b.hash, moves |-> << >>, next |-> 1,
     mv |-> NoMove, max_score |-> MIN_EVALUATION, inserted |-> FALSE,
     generated |-> FALSE, recursed |-> FALSE,
     entry_map |-> entry_map, entry_count |-> MapCount(entry_map, b.hash)]

Top(s) == s[Len(s)]

Pop(s) == SubSeq(s, 1, Len(s) - 1)

ReplaceTop(s, f) == [s EXCEPT ![Len(s)] = f]

\* the frame f returns `value`: it leaves the stack
Returns(s, f, value, map, pv, nodes, expired) ==
    [stack |-> Pop(s.stack), ret |-> <<value>>, map |-> map, pv |-> pv, nodes |-> nodes,
     phase |-> IF Len(s.stack) = 1 THEN "root_ret" ELSE "ret",
     returned |-> [kind |-> f.caller, ply |-> f.ply, entry_map |-> f.entry_map,
                   entry_count |-> f.entry_count, value |-> value, expired |-> expired,
                   generated |-> f.generated, recursed |-> f.recursed,
                   origin_ply |-> IF expired THEN f.ply ELSE s.returned.origin_ply,
                   origin_kind |-> IF expired THEN f.kind ELSE s.returned.origin_kind]]

\* the frame f goes on, in `phase`
Continues(s, f, map, pv, nodes, next_phase) ==
    [stack |-> ReplaceTop(s.stack, f), ret |-> NoRet, map |-> map, pv |-> pv, nodes |-> nodes,
     phase |-> next_phase, returned |-> s.returned]

\* the frame f calls `callee`
Calls(s, f, callee) ==
    [stack |-> Append(ReplaceTop(s.stack, f), callee), ret |-> NoRet, map |-> s.map,
     pv |-> s.pv, nodes |-> s.nodes, phase |-> "enter", returned |-> s.returned]

NegamaxMovesMateIsLoss(s, f, moves) ==
    IF Len(moves) = 0 /\ is_checkmate(f.board)
        THEN Returns(s, f, Some(LOSS), remove_hash(s.map, f.hash), s.pv, s.nodes, FALSE)
    ELSE IF Len(moves) = 0 /\ is_stalemate(f.board)
        THEN Returns(s, f, Some(DRAW), remove_hash(s.map, f.hash), s.pv, s.nodes, FALSE)
    ELSE Continues(s, [f EXCEPT !.moves = moves], s.map, s.pv, s.nodes, "loop")

\* lines 218-229: no legal move is mate or stalemate; otherwise the loop
NegamaxMoves(s, f, moves) ==
    IF Len(moves) = 0 /\ is_checkmate(f.board)
        THEN Returns(s, f, Some(LOSS - f.depth), remove_hash(s.map, f.hash), s.pv, s.nodes, FALSE)
    ELSE IF Len(moves) = 0 /\ is_stalemate(f.board)
        THEN Returns(s, f, Some(DRAW), remove_hash(s.map, f.hash), s.pv, s.nodes, FALSE)
    ELSE Continues(s, [f EXCEPT !.moves = moves], s.map, s.pv, s.nodes, "loop")

\* lines 199-211: at depth 0 the position leaves the map and the call ends
\* with the quiescence search
NegamaxDepth(s, f) ==
    IF f.depth <= 0 \/ f.ply > MAX_PLY
        THEN Continues(s, Frame("quiescence", "negamax", f.board, f.depth, f.alpha, f.beta,
                                f.ply, f.entry_map),
                       remove_hash(s.map, f.hash), s.pv, s.nodes - 1, "enter")
        ELSE NegamaxMoves(s, [f EXCEPT !.inserted = TRUE, !.generated = TRUE],
                          generate_legal_moves(f.board, None))

\* lines 190-197, after the node is counted and the line of its ply is emptied
NegamaxRepetition(s, f) ==
    IF MapCount(s.map, f.hash) = 2
        THEN Returns(s, f, Some(0), s.map, s.pv, s.nodes, FALSE)
        ELSE NegamaxDepth([s EXCEPT !.map = insert_hash(s.map, f.hash)], f)

negamax_entry_counts_first(s, f, expired) ==
    IF expired THEN Returns(s, f, None, s.map, s.pv, s.nodes + 1, TRUE)
    ELSE NegamaxRepetition([s EXCEPT !.nodes = s.nodes + 1, !.pv = ClearVariation(s.pv, f.ply)], f)

negamax_entry_inserts_first(s, f, expired) ==
    IF expired THEN Returns(s, f, None, s.map, s.pv, s.nodes, TRUE)
    ELSE NegamaxRepetition([s EXCEPT !.nodes = s.nodes + 1, !.pv = ClearVariation(s.pv, f.ply),
                                     !.map = insert_hash(s.map, f.hash)], f)

\* negamax, lines 184-229: from the call to the return or to the loop
negamax_entry(s, f, expired) ==
    IF expired THEN Returns(s, f, None, s.map, s.pv, s.nodes, TRUE)
    ELSE NegamaxRepetition([s EXCEPT !.nodes = s.nodes + 1, !.pv = ClearVariation(s.pv, f.ply)], f)

\* lines 294-302: stand pat, and the capture moves unless it cuts off
QuiescenceStandPat(s, f, stand_pat) ==
    IF Max(f.alpha, stand_pat) >= f.beta
        THEN Returns(s, [f EXCEPT !.max_score = stand_pat], Some(stand_pat), s.map, s.pv, s.nodes, FALSE)
        ELSE Continues(s, [f EXCEPT !.max_score = stand_pat, !.alpha = Max(f.alpha, stand_pat),
                                    !.generated = TRUE,
                                    !.moves = generate_legal_capture_moves(f.board)],
                       s.map, s.pv, s.nodes, "loop")

\* quiescence_search_prunning, lines 289-302
quiescence_entry(s, f, expired) ==
    IF expired THEN Returns(s, f, None, s.map, s.pv, s.nodes, TRUE)
    ELSE QuiescenceStandPat([s EXCEPT !.nodes = s.nodes + 1], f, StandPat(f.board))

\* negamax lines 231-233 and quiescence lines 306-311: the next move is made
\* on a clone and searched, with the window turned around
ChildFrame(s, f, mv) ==
    IF f.kind = "negamax"
        THEN Frame("negamax", "negamax", make_move(f.board, mv), f.depth - 1, -f.beta, -f.alpha,
                   f.ply + 1, s.map)
        ELSE Frame("quiescence", "quiescence", make_move(f.board, mv), f.depth, -f.beta, -f.alpha,
                   f.ply + 1, s.map)

\* negamax lines 250-251 and quiescence line 323: the moves are used up
LoopEnds(s, f) ==
    Returns(s, f, Some(f.max_score), IF f.kind = "negamax" THEN remove_hash(s.map, f.hash) ELSE s.map,
            s.pv, s.nodes, FALSE)

search_loop(s, f) ==
    IF f.next > Len(f.moves) THEN LoopEnds(s, f)
    ELSE Calls(s, [f EXCEPT !.mv = f.moves[f.next], !.next = f.next + 1, !.recursed = TRUE],
               ChildFrame(s, f, f.moves[f.next]))

NegamaxScoreCutsOnAlpha(s, f, score) ==
    IF score > f.max_score /\ score > f.alpha
        THEN Continues(s, [f EXCEPT !.max_score = score, !.alpha = score,
                                    !.next = Len(f.moves) + 1],
                       s.map, save_principal_variation(s.pv, f.mv, f.depth, f.ply), s.nodes, "loop")
    ELSE IF score > f.max_score
        THEN Continues(s, [f EXCEPT !.max_score = score], s.map, s.pv, s.nodes, "loop")
    ELSE Continues(s, f, s.map, s.pv, s.nodes, "loop")

\* negamax lines 238-247: a better score raises max_score, then alpha with
\* the line of the move, then may cut off
NegamaxScore(s, f, score) ==
    IF score > f.max_score /\ score > f.alpha
        THEN Continues(s, [f EXCEPT !.max_score = score, !.alpha = score,
                                    !.next = IF score >= f.beta THEN Len(f.moves) + 1 ELSE f.next],
                       s.map, save_principal_variation(s.pv, f.mv, f.depth, f.ply), s.nodes, "loop")
    ELSE IF score > f.max_score
        THEN Continues(s, [f EXCEPT !.max_score = score], s.map, s.pv, s.nodes, "loop")
    ELSE Continues(s, f, s.map, s.pv, s.nodes, "loop")

negamax_return_keeps_hash(s, f, value) ==
    IF value = None THEN Returns(s, f, None, s.map, s.pv, s.nodes, FALSE)
    ELSE NegamaxScore(s, f, -Unwrap(value))

\* negamax lines 232-237: None from the child removes the position and is
\* returned; a score is negated
negamax_return(s, f, value) ==
    IF value = None THEN Returns(s, f, None, remove_hash(s.map, f.hash), s.pv, s.nodes, FALSE)
    ELSE NegamaxScore(s, f, -Unwrap(value))

\* quiescence lines 313-318
QuiescenceScore(s, f, score) ==
    Continues(s, [f EXCEPT !.max_score = Max(f.max_score, score), !.alpha = Max(f.alpha, score),
                           !.next = IF Max(f.alpha, score) >= f.beta THEN Len(f.moves) + 1 ELSE f.next],
              s.map, s.pv, s.nodes, "loop")

\* quiescence lines 307-312
quiescence_return(s, f, value) ==
    IF value = None THEN Returns(s, f, None, s.map, s.pv, s.nodes, FALSE)
    ELSE QuiescenceScore(s, f, -Unwrap(value))

-----------------------------------------------------------------------------
(* uci.rs: the main thread and the worker thread of `go` *)

engineVars ==
    <<engine_board, repetition_map, principal_variation, last_pvs, aborted, mutex, poisoned,
      main, worker, phase, elapsed, iterative, root, stack, ret, completed, returned>>

\* AlphaBetaEngine::new() behind its mutex, and no search
EngineIdle ==
    /\ engine_board = NewBoard
    /\ repetition_map = EmptyMap
    /\ principal_variation = NewPrincipalVariation
    /\ last_pvs = << >>
    /\ aborted = FALSE
    /\ mutex = 0
    /\ poisoned = FALSE
    /\ main = "running"
    /\ worker = [w \in Workers |-> NewWorker]
    /\ phase = "idle"
    /\ elapsed = 0
    /\ iterative = IdleIterative
    /\ root = IdleRoot
    /\ stack = << >>
    /\ ret = NoRet
    /\ completed = None
    /\ returned = NoReturn

\* run_uci_interface, lines 14-18, with no board under play and no perft
EngineInit ==
    /\ EngineIdle
    /\ board = NewBoard
    /\ parent = NewBoard
    /\ last_move = None
    /\ plies = 0
    /\ panic_at = 0
    /\ text = << >>
    /\ parse_result = None
    /\ answer = None
    /\ perft_depth = 0
    /\ perft_result = None
    /\ board_repetition_map = << >>
    /\ game = << >>

\* a panic of the main thread ends the process, and with it every worker
Alive == main # "panicked"

\* the main thread is in lines() of stdin, line 20, or in the arm of a command
\* that does not wait; "waiting" is the main thread inside engine.lock()
Reading == main = "running"

\* Instant::now() > deadline || aborted.load(Relaxed)
Expired(deadline) == elapsed > deadline \/ aborted

\* `position ...`, lines 46-57.  engine.lock() waits for a searching worker
\* and panics in unwrap() when a worker panicked with the engine locked.  The
\* model reads the command while a `go` is to come or its worker has not begun
Position ==
    /\ Reading
    /\ mutex = 0
    /\ \E w \in Workers : worker[w].pc \in {"unborn", "spawned"}
    /\ \E tokens \in PositionLines :
          \E r \in {position_command([board |-> engine_board, map |-> repetition_map], tokens)} :
             /\ main' = IF poisoned \/ r.panic THEN "panicked" ELSE main
             /\ poisoned' = (poisoned \/ r.panic)
             /\ engine_board' = IF poisoned THEN engine_board ELSE r.board
             /\ repetition_map' = IF poisoned THEN repetition_map ELSE r.map
    /\ UNCHANGED <<principal_variation, last_pvs, aborted, mutex, worker, phase, elapsed,
                   iterative, root, stack, ret, completed, returned>>
    /\ UNCHANGED <<boardVars, perftVars, historyVars, textVars>>

\* `go ...`, lines 58-66: the time is computed with the engine locked for
\* get_active_player, then the worker thread is spawned
Go ==
    /\ Reading
    /\ mutex = 0
    /\ \E w \in Workers :
          /\ worker[w].pc = "unborn"
          /\ \A v \in Workers : v < w => worker[v].pc # "unborn"
          /\ \E tokens \in GoLines :
                \E search_time \in parse_go_command(Tail(tokens), engine_board.active_color) :
                   IF poisoned \/ search_time.panic
                       THEN main' = "panicked" /\ UNCHANGED worker
                       ELSE /\ worker' = [worker EXCEPT ![w].pc = "spawned",
                                                        ![w].time_limit = search_time.millis]
                            /\ UNCHANGED main
    /\ UNCHANGED <<engine_board, repetition_map, principal_variation, last_pvs, aborted, mutex,
                   poisoned, phase, elapsed, iterative, root, stack, ret, completed, returned>>
    /\ UNCHANGED <<boardVars, perftVars, historyVars, textVars>>

\* `stop`, lines 67-69.  `stopped` records, for the properties, the workers
\* whose `go` this `stop` follows
Stop ==
    /\ Reading
    /\ ~aborted \/ \E w \in Workers : worker[w].pc \in {"spawned", "searching"} /\ ~worker[w].stopped
    /\ aborted' = TRUE
    /\ worker' = [w \in Workers |->
                     IF worker[w].pc \in {"spawned", "searching"}
                         THEN [worker[w] EXCEPT !.stopped = TRUE] ELSE worker[w]]
    /\ UNCHANGED <<engine_board, repetition_map, principal_variation, last_pvs, mutex, poisoned,
                   main, phase, elapsed, iterative, root, stack, ret, completed, returned>>
    /\ UNCHANGED <<boardVars, perftVars, historyVars, textVars>>

\* `d`, lines 73-76, read while a worker holds the engine: engine.lock()
\* does not return before the worker's guard is dropped, and no further line
\* of stdin is read until then (`position` and `go` wait in the same call)
DisplayWaits ==
    /\ Reading
    /\ mutex # 0
    /\ main' = "waiting"
    /\ UNCHANGED <<engine_board, repetition_map, principal_variation, last_pvs, aborted, mutex,
                   poisoned, worker, phase, elapsed, iterative, root, stack, ret, completed,
                   returned>>
    /\ UNCHANGED <<boardVars, perftVars, historyVars, textVars>>

\* the lock() of the waiting `d` returns once the worker has let go of the
\* engine; unwrap() panics when that worker panicked with the engine locked
DisplayLocks ==
    /\ main = "waiting"
    /\ mutex = 0
    /\ main' = IF poisoned THEN "panicked" ELSE "running"
    /\ UNCHANGED <<engine_board, repetition_map, principal_variation, last_pvs, aborted, mutex,
                   poisoned, worker, phase, elapsed, iterative, root, stack, ret, completed,
                   returned>>
    /\ UNCHANGED <<boardVars, perftVars, historyVars, textVars>>

\* a millisecond passes before the searching worker next reads the clock
Tick ==
    /\ Alive
    /\ mutex # 0
    /\ phase \in {"loop_check", "remaining", "root_start", "root_loop", "enter"}
    /\ elapsed < MaxElapsed
    /\ elapsed' = elapsed + 1
    /\ UNCHANGED <<engine_board, repetition_map, principal_variation, last_pvs, aborted, mutex,
                   poisoned, main, worker, phase, iterative, root, stack, ret, completed,
                   returned>>
    /\ UNCHANGED <<boardVars, perftVars, historyVars, textVars>>

\* the worker's engine_clone.lock().unwrap(), line 62
WorkerLock ==
    /\ Alive
    /\ mutex = 0
    /\ \E w \in Workers :
          /\ worker[w].pc = "spawned"
          /\ IF poisoned
                 THEN /\ worker' = [worker EXCEPT ![w].pc = "panicked"]
                      /\ UNCHANGED <<mutex, phase>>
                 ELSE /\ worker' = [worker EXCEPT ![w].pc = "searching"]
                      /\ mutex' = w
                      /\ phase' = "iter_start"
    /\ UNCHANGED <<engine_board, repetition_map, principal_variation, last_pvs, aborted,
                   poisoned, main, elapsed, iterative, root, stack, ret, completed, returned>>
    /\ UNCHANGED <<boardVars, perftVars, historyVars, textVars>>

\* a panic of the worker with the engine locked: the thread ends without a
\* line of output and the mutex is poisoned
WorkerPanics ==
    /\ worker' = [worker EXCEPT ![mutex].pc = "panicked"]
    /\ mutex' = 0
    /\ poisoned' = TRUE
    /\ phase' = "idle"

\* find_best_move_iterative, lines 75-81
IterStart ==
    /\ Alive
    /\ mutex # 0
    /\ phase = "iter_start"
    /\ iterative' = [best_move |-> None, total_node_count |-> 0, depth |-> 1,
                     time_limit |-> worker[mutex].time_limit, remaining_time |-> 0]
    /\ aborted' = FALSE
    /\ elapsed' = 0
    /\ completed' = None
    /\ phase' = "loop_check"
    /\ UNCHANGED <<engine_board, repetition_map, principal_variation, last_pvs, mutex, poisoned,
                   main, worker, root, stack, ret, returned>>
    /\ UNCHANGED <<boardVars, perftVars, historyVars, textVars>>

\* line 83: while start_time.elapsed() < time_limit.  The model starts a
\* depth beyond MaxDepth only to see it aborted
LoopCheck ==
    /\ Alive
    /\ mutex # 0
    /\ phase = "loop_check"
    /\ IF elapsed < iterative.time_limit
           THEN /\ iterative.depth <= MaxDepth \/ aborted
                /\ phase' = "remaining"
           ELSE phase' = "finish"
    /\ UNCHANGED <<engine_board, repetition_map, principal_variation, last_pvs, aborted, mutex,
                   poisoned, main, worker, elapsed, iterative, root, stack, ret, completed,
                   returned>>
    /\ UNCHANGED <<boardVars, perftVars, historyVars, textVars>>

\* line 84: time_limit - start_time.elapsed() panics when the time limit
\* has passed since the loop's check
Remaining ==
    /\ Alive
    /\ mutex # 0
    /\ phase = "remaining"
    /\ IF elapsed > iterative.time_limit
           THEN WorkerPanics /\ UNCHANGED iterative
           ELSE /\ iterative' = [iterative EXCEPT !.remaining_time = iterative.time_limit - elapsed]
                /\ phase' = "root_start"
                /\ UNCHANGED <<mutex, poisoned, worker>>
    /\ UNCHANGED <<engine_board, repetition_map, principal_variation, last_pvs, aborted, main,
                   elapsed, root, stack, ret, completed, returned>>
    /\ UNCHANGED <<boardVars, perftVars, historyVars, textVars>>

\* find_best_move_with_timeout, lines 137-149
RootStart ==
    /\ Alive
    /\ mutex # 0
    /\ phase = "root_start"
    /\ root' = [deadline |-> elapsed + iterative.remaining_time,
                moves |-> generate_legal_moves(engine_board, None), next |-> 1, mv |-> NoMove,
                alpha |-> MIN_EVALUATION, best_score |-> I32_MIN, best_move |-> None,
                node_count |-> 0, result |-> None,
                entry_map |-> repetition_map, entry_board |-> engine_board]
    /\ phase' = "root_loop"
    /\ UNCHANGED <<engine_board, repetition_map, principal_variation, last_pvs, aborted, mutex,
                   poisoned, main, worker, elapsed, iterative, stack, ret, completed, returned>>
    /\ UNCHANGED <<boardVars, perftVars, historyVars, textVars>>

\* lines 150-157 and 171: the next root move is searched, unless the moves
\* are used up or the deadline or an abort ends the depth
RootLoop ==
    /\ Alive
    /\ mutex # 0
    /\ phase = "root_loop"
    /\ IF root.next > Len(root.moves)
           THEN /\ root' = [root EXCEPT !.result =
                               IF IsSome(root.best_move)
                                   THEN Some(<<Unwrap(root.best_move), root.best_score, root.node_count>>)
                                   ELSE None]
                /\ completed' =
                       IF IsSome(root.best_move)
                           THEN Some([pv |-> BestLine(principal_variation), score |-> root.best_score,
                                      nodes |-> iterative.total_node_count + root.node_count,
                                      depth |-> iterative.depth])
                           ELSE completed
                /\ phase' = "iter_ret"
                /\ UNCHANGED stack
           ELSE IF Expired(root.deadline)
           THEN /\ root' = [root EXCEPT !.result = None]
                /\ phase' = "iter_ret"
                /\ UNCHANGED <<stack, completed>>
           ELSE /\ root' = [root EXCEPT !.mv = root.moves[root.next], !.next = root.next + 1]
                /\ stack' = <<Frame("negamax", "negamax",
                                    make_move(engine_board, root.moves[root.next]),
                                    iterative.depth, MIN_EVALUATION, -root.alpha, 1,
                                    repetition_map)>>
                /\ phase' = "enter"
                /\ UNCHANGED completed
    /\ UNCHANGED <<engine_board, repetition_map, principal_variation, last_pvs, aborted, mutex,
                   poisoned, main, worker, elapsed, iterative, ret, returned>>
    /\ UNCHANGED <<boardVars, perftVars, historyVars, textVars>>

\* the search as a record, for the functions of one step of a call
Search ==
    [stack |-> stack, ret |-> ret, map |-> repetition_map, pv |-> principal_variation,
     nodes |-> root.node_count, phase |-> phase, returned |-> returned]

Becomes(s) ==
    /\ stack' = s.stack
    /\ ret' = s.ret
    /\ repetition_map' = s.map
    /\ principal_variation' = s.pv
    /\ root' = [root EXCEPT !.node_count = s.nodes]
    /\ phase' = s.phase
    /\ returned' = s.returned
    /\ UNCHANGED <<engine_board, last_pvs, aborted, mutex, poisoned, main, worker, elapsed,
                   iterative, completed>>
    /\ UNCHANGED <<boardVars, perftVars, historyVars, textVars>>

\* line 188: principal_variation[ply] is indexed before line 199 looks at
\* ply; the array has MAX_PLY rows and Rust panics on an index beyond them
IndexPanics(f, expired) == f.kind = "negamax" /\ ~expired /\ f.ply >= MAX_PLY

\* a call begins: negamax lines 184-229, quiescence lines 289-304
Enter ==
    /\ Alive
    /\ mutex # 0
    /\ phase = "enter"
    /\ IF IndexPanics(Top(stack), Expired(root.deadline))
           THEN /\ WorkerPanics
                /\ UNCHANGED <<engine_board, repetition_map, principal_variation, last_pvs,
                               aborted, main, elapsed, iterative, root, stack, ret, completed,
                               returned>>
                /\ UNCHANGED <<boardVars, perftVars, historyVars, textVars>>
           ELSE \E s \in {IF Top(stack).kind = "negamax"
                               THEN negamax_entry(Search, Top(stack), Expired(root.deadline))
                               ELSE quiescence_entry(Search, Top(stack), Expired(root.deadline))} :
                   Becomes(s)

\* the head of the loop over the moves: negamax line 231, quiescence line 306
Loop ==
    /\ Alive
    /\ mutex # 0
    /\ phase = "loop"
    /\ \E s \in {search_loop(Search, Top(stack))} : Becomes(s)

\* a call returns into the loop of its caller: negamax lines 232-247,
\* quiescence lines 307-318
Return ==
    /\ Alive
    /\ mutex # 0
    /\ phase = "ret"
    /\ \E s \in {IF Top(stack).kind = "negamax"
                     THEN negamax_return(Search, Top(stack), ret[1])
                     ELSE quiescence_return(Search, Top(stack), ret[1])} :
          Becomes(s)

\* lines 163-168: a better root move becomes the best move and its line
RootScore(r, score, mv) ==
    IF score > r.best_score
        THEN [r EXCEPT !.alpha = score, !.best_score = score, !.best_move = Some(mv)]
        ELSE r

\* find_best_move_with_timeout, lines 158-169: negamax returns to the root
RootReturn ==
    /\ Alive
    /\ mutex # 0
    /\ phase = "root_ret"
    /\ IF ret[1] = None
           THEN /\ root' = [root EXCEPT !.result = None]
                /\ phase' = "iter_ret"
                /\ UNCHANGED principal_variation
           ELSE /\ root' = RootScore(root, -Unwrap(ret[1]), root.mv)
                /\ principal_variation' =
                       IF -Unwrap(ret[1]) > root.best_score
                           THEN save_principal_variation(principal_variation, root.mv,
                                                         iterative.depth, 0)
                           ELSE principal_variation
                /\ phase' = "root_loop"
    /\ ret' = NoRet
    /\ UNCHANGED <<engine_board, repetition_map, last_pvs, aborted, mutex, poisoned, main,
                   worker, elapsed, iterative, stack, completed, returned>>
    /\ UNCHANGED <<boardVars, perftVars, historyVars, textVars>>

Reverse(s) == [i \in 1..Len(s) |-> s[Len(s) + 1 - i]]

iterate_forgets(it, result, pv) ==
    IF IsSome(result)
        THEN [it EXCEPT !.best_move = Some([pv |-> BestLine(pv), score |-> Unwrap(result)[2],
                                            nodes |-> it.total_node_count + Unwrap(result)[3],
                                            depth |-> it.depth]),
                        !.total_node_count = it.total_node_count + Unwrap(result)[3],
                        !.depth = it.depth + 1]
        ELSE [it EXCEPT !.best_move = None]

\* find_best_move_iterative, lines 87-108: a depth that returned a value
\* becomes the best move; None leaves it as it is
iterate(it, result, pv) ==
    IF IsSome(result)
        THEN [it EXCEPT !.best_move = Some([pv |-> BestLine(pv), score |-> Unwrap(result)[2],
                                            nodes |-> it.total_node_count + Unwrap(result)[3],
                                            depth |-> it.depth]),
                        !.total_node_count = it.total_node_count + Unwrap(result)[3],
                        !.depth = it.depth + 1]
        ELSE it

\* lines 86-108: the depth's result, the info line and last_pvs, or the break
IterReturn ==
    /\ Alive
    /\ mutex # 0
    /\ phase = "iter_ret"
    /\ iterative' = iterate(iterative, root.result, principal_variation)
    /\ IF IsSome(root.result)
           THEN /\ worker' = [worker EXCEPT ![mutex].infos = @ + 1]
                /\ last_pvs' = Reverse(BestLine(principal_variation))
                /\ phase' = "loop_check"
           ELSE /\ phase' = "finish"
                /\ UNCHANGED <<worker, last_pvs>>
    /\ UNCHANGED <<engine_board, repetition_map, principal_variation, aborted, mutex, poisoned,
                   main, elapsed, root, stack, ret, completed, returned>>
    /\ UNCHANGED <<boardVars, perftVars, historyVars, textVars>>

\* line 111 and uci.rs lines 63-65: unwrap() of None panics; otherwise the
\* bestmove line is printed and the engine unlocked
Finish ==
    /\ Alive
    /\ mutex # 0
    /\ phase = "finish"
    /\ IF iterative.best_move = None
           THEN WorkerPanics
           ELSE /\ worker' = [worker EXCEPT ![mutex].pc = "done",
                                            ![mutex].bestmove =
                                                Append(@, Unwrap(iterative.best_move).pv[1])]
                /\ mutex' = 0
                /\ phase' = "idle"
                /\ UNCHANGED poisoned
    /\ UNCHANGED <<engine_board, repetition_map, principal_variation, last_pvs, aborted, main,
                   elapsed, iterative, root, stack, ret, completed, returned>>
    /\ UNCHANGED <<boardVars, perftVars, historyVars, textVars>>

-----------------------------------------------------------------------------
(* The board under play: a position built by from_fen, then legal moves *)

MaxPlies == 2

MaxPerftDepth == 3

legal_moves(b) == generate_legal_moves(b, None)

MoveSet(moves) == { moves[i] : i \in 1..Len(moves) }

InitBoard ==
    /\ board \in { from_fen(f).board : f \in { g \in StartFens : from_fen(g).ok } }
    /\ parent = board
    /\ last_move = None
    /\ plies = 0
    /\ panic_at = 0
    /\ text = << >>
    /\ parse_result = None
    /\ answer = None
    /\ perft_depth = 0
    /\ perft_result = None
    /\ board_repetition_map = << >>
    /\ game = << >>
    /\ EngineIdle

\* `+= 1` on a u8 that holds U8_MAX: a build with overflow checks (the debug
\* profile) panics at the line, a build without (the release profile) wraps.
\* line 130, halfmove_clock += 1
ClockOverflows(b, mv) ==
    /\ IsOccupied(SquareAt(b, mv.from))
    /\ SquareAt(b, mv.from).kind # Pawn
    /\ ~IsOccupied(SquareAt(b, mv.to))
    /\ b.halfmove_clock = U8_MAX

\* line 255, fullmove_number += 1
NumberOverflows(b) == b.active_color = Black /\ b.fullmove_number = U8_MAX

\* the line at which make_move panics in a build with overflow checks, or 0
PanicLine(b, mv) ==
    IF ClockOverflows(b, mv) THEN 130 ELSE IF NumberOverflows(b) THEN 255 ELSE 0

\* what board.make_move(mv) can do: return with the board moved (wrapped where
\* a counter overflowed), or panic at the overflowing line
MoveOutcomes(b, mv) ==
    {[board |-> make_move(b, mv), panic |-> 0]}
        \cup (IF PanicLine(b, mv) = 0 THEN {} ELSE {[board |-> b, panic |-> PanicLine(b, mv)]})

\* board.make_move(mv) for a move of generate_legal_moves.  After a panic the
\* thread unwinds and nothing reads the board: the model keeps the board, the
\* parent and the last move of before the call
MakeMove ==
    /\ plies < MaxPlies
    /\ perft_result = None
    /\ panic_at = 0
    /\ \E mv \in MoveSet(legal_moves(board)) :
          \E out \in MoveOutcomes(board, mv) :
             /\ board' = out.board
             /\ panic_at' = out.panic
             /\ last_move' = IF out.panic = 0 THEN Some(mv) ELSE last_move
             /\ parent' = IF out.panic = 0 THEN board ELSE parent
             /\ plies' = IF out.panic = 0 THEN plies + 1 ELSE plies
    /\ UNCHANGED <<perftVars, historyVars, engineVars, textVars>>

\* perft(&board, depth) on a board built by from_fen
Perft ==
    /\ perft_result = None
    /\ plies = 0
    /\ \E d \in 0..MaxPerftDepth :
          /\ perft_depth' = d
          /\ perft_result' = Some(perft(board, d))
    /\ UNCHANGED <<boardVars, historyVars, engineVars, textVars>>

vars == <<boardVars, perftVars, historyVars, textVars, engineVars>>

Next == MakeMove

Spec == InitBoard /\ [][Next]_vars

-----------------------------------------------------------------------------
(* a board under play from a position with any counters *)

\* r3k3/8/8/3pP3/8/8/8/R3K3 w - d6, before its two counters
FEN_COUNTERS ==
    <<"r", "3", "k", "3", "/", "8", "/", "8", "/", "3", "p", "P", "3", "/", "8", "/", "8", "/", "8", "/", "R", "3", "K", "3", " ", "w", " ", "-", " ", "d", "6", " ">>

\* the position with halfmove clock h and fullmove number f
CountersFen(h, f) == FEN_COUNTERS \o Decimal(h) \o <<" ">> \o Decimal(f)

\* ChessBoard::from_fen of the position, for every value of the counters
InitCounters ==
    /\ board \in { from_fen(CountersFen(n, n)).board : n \in 0..U8_MAX }
    /\ parent = board
    /\ last_move = None
    /\ plies = 0
    /\ panic_at = 0
    /\ text = << >>
    /\ parse_result = None
    /\ answer = None
    /\ perft_depth = 0
    /\ perft_result = None
    /\ board_repetition_map = << >>
    /\ game = << >>
    /\ EngineIdle

CounterSpec == InitCounters /\ [][Next]_vars

-----------------------------------------------------------------------------
(* ChessBoard::from_fen on a text *)

\* the fields the model builds its FEN texts from: well-formed ones and, for
\* each field, texts with one of the defects a FEN can have
PlacementTexts ==
    {<<"4", "k", "3", "/", "8", "/", "8", "/", "8", "/", "8", "/", "8", "/", "8", "/", "4", "K", "3">>,
     <<"4", "k", "3", "/", "8", "/", "8", "/", "8", "/", "8", "/", "8", "/", "8", "/", "R", "3", "K", "2", "R">>,
     <<"4", "k", "3", "/", "8", "/", "8", "/", "8", "/", "8", "/", "8", "/", "8", "/", "4", "K", "2">>,
     <<"4", "k", "3", "/", "8", "/", "8", "/", "8", "/", "8", "/", "8", "/", "8", "/", "7">>,
     <<"4", "k", "3", "/", "8", "/", "8", "/", "8", "/", "8", "/", "8", "/", "8", "/", "4", "K", "4">>,
     <<"4", "k", "3", "/", "8", "/", "8", "/", "8", "/", "8", "/", "8", "/", "8", "/", "9">>,
     <<"4", "k", "3", "/", "8", "/", "8", "/", "8", "/", "8", "/", "8", "/", "8", "/", "X", "7">>,
     <<"4", "k", "3", "/", "8", "/", "8", "/", "8", "/", "8", "/", "8", "/", "8", "/", "4", "K", "3", "p">>,
     <<"4", "k", "3", "/", "8", "/", "8", "/", "8", "/", "8", "/", "8", "/", "8", "/">>,
     <<"4", "k", "3", "/", "8", "/", "8", "/", "8", "/", "8", "/", "8", "/", "4", "K", "3">>,
     <<"4", "k", "3", "/", "8", "/", "8", "/", "8", "/", "8", "/", "8", "/", "8", "/", "8", "/", "4", "K", "3">>}

ColourTexts == {<<"w">>,
                <<"b">>,
                <<"W">>,
                <<"w", "h", "i", "t", "e">>}

CastlingTexts == {<<"-">>,
                  <<"K", "Q", "k", "q">>,
                  <<"K", "q">>,
                  <<"x">>,
                  <<"K", "Q", "x">>}

EnPassantTexts == {<<"-">>,
                   <<"e", "3">>,
                   <<"e", "9">>,
                   <<"e">>}

HalfmoveTexts == {<<"0">>,
                  <<"1", "2">>,
                  <<"x">>,
                  <<"2", "5", "6">>}

FullmoveTexts == {<<"1">>,
                  <<"-", "1">>}

\* the fields with a space between them
RECURSIVE JoinFields(_)
JoinFields(fields) ==
    IF Len(fields) = 1 THEN fields[1]
    ELSE fields[1] \o <<" ">> \o JoinFields(Tail(fields))

\* six fields, and texts of five and of seven fields
FenTexts ==
    { JoinFields(<<p, c, k, e, h, f>>) :
        p \in PlacementTexts, c \in ColourTexts, k \in CastlingTexts,
        e \in EnPassantTexts, h \in HalfmoveTexts, f \in FullmoveTexts }
    \cup { JoinFields(<<p, <<"w">>, <<"-">>, <<"-">>, h>>) :
             p \in PlacementTexts, h \in HalfmoveTexts }
    \cup { JoinFields(<<p, <<"w">>, <<"-">>, <<"-">>, h, <<"1">>, <<"1">>>>) :
             p \in PlacementTexts, h \in HalfmoveTexts }

InitText ==
    /\ EngineIdle
    /\ board = NewBoard
    /\ parent = NewBoard
    /\ last_move = None
    /\ plies = 0
    /\ panic_at = 0
    /\ text = << >>
    /\ parse_result = None
    /\ answer = None
    /\ perft_depth = 0
    /\ perft_result = None
    /\ board_repetition_map = << >>
    /\ game = << >>

\* ChessBoard::from_fen(text)
FromFen ==
    /\ text = << >>
    /\ \E fen \in FenTexts :
          /\ text' = fen
          /\ parse_result' = Some(from_fen(fen))
    /\ UNCHANGED <<boardVars, perftVars, historyVars, engineVars, answer>>

FenNext == FromFen

FenSpec == InitText /\ [][FenNext]_vars

-----------------------------------------------------------------------------
(* a board under play whose moves pass through their text *)

\* a move of generate_legal_moves is written with as_algebraic (as `bestmove`
\* writes it, uci.rs), read with Move::from_algebraic (as `position .. moves`
\* reads it) and the move read is made on the board
PlayWrittenMove ==
    /\ plies < MaxPlies
    /\ perft_result = None
    /\ panic_at = 0
    /\ \E mv \in MoveSet(legal_moves(board)) :
          \E out \in MoveOutcomes(board, from_algebraic(as_algebraic(mv))) :
             /\ text' = as_algebraic(mv)
             /\ parse_result' = Some(from_algebraic(as_algebraic(mv)))
             /\ board' = out.board
             /\ panic_at' = out.panic
             /\ last_move' = IF out.panic = 0 THEN Some(mv) ELSE last_move
             /\ parent' = IF out.panic = 0 THEN board ELSE parent
             /\ plies' = IF out.panic = 0 THEN plies + 1 ELSE plies
    /\ UNCHANGED <<perftVars, historyVars, engineVars, answer>>

MoveTextNext == PlayWrittenMove

MoveTextSpec == InitBoard /\ [][MoveTextNext]_vars

-----------------------------------------------------------------------------
(* questions asked of a board built by from_fen *)

\* 8/2P5/8/8/8/8/3p4/8 w - - 0 1   (mod.rs test_if_field_is_attacked)
FEN_ATTACKED ==
    <<"8", "/", "2", "P", "5", "/", "8", "/", "8", "/", "8", "/", "8", "/", "3", "p", "4", "/", "8", " ", "w", " ", "-", " ", "-", " ", "0", " ", "1">>

\* 1k6/8/8/8/8/8/PPn5/KN6 w - - 0 1   (mod.rs test_checkmate)
FEN_CHECKMATE ==
    <<"1", "k", "6", "/", "8", "/", "8", "/", "8", "/", "8", "/", "8", "/", "P", "P", "n", "5", "/", "K", "N", "6", " ", "w", " ", "-", " ", "-", " ", "0", " ", "1">>

\* 1k6/8/8/8/8/1r6/7r/K7 w - - 0 1   (mod.rs test_stalemate)
FEN_STALEMATE ==
    <<"1", "k", "6", "/", "8", "/", "8", "/", "8", "/", "8", "/", "1", "r", "6", "/", "7", "r", "/", "K", "7", " ", "w", " ", "-", " ", "-", " ", "0", " ", "1">>

\* 8/8/8/8/3b4/8/1r6/K7 w - - 0 1: White cannot move, Black has no king
FEN_BLOCKED ==
    <<"8", "/", "8", "/", "8", "/", "8", "/", "3", "b", "4", "/", "8", "/", "1", "r", "6", "/", "K", "7", " ", "w", " ", "-", " ", "-", " ", "0", " ", "1">>

\* the boards the questions are asked of: with and without kings
QuestionFens ==
    StartFens \cup {FEN_ATTACKED, FEN_CHECKMATE, FEN_STALEMATE, FEN_BLOCKED}

InitQuestion ==
    /\ board \in { from_fen(f).board : f \in QuestionFens }
    /\ parent = board
    /\ last_move = None
    /\ plies = 0
    /\ panic_at = 0
    /\ text = << >>
    /\ parse_result = None
    /\ answer = None
    /\ perft_depth = 0
    /\ perft_result = None
    /\ board_repetition_map = << >>
    /\ game = << >>
    /\ EngineIdle

\* board.is_square_attacked_by_color(row, col, color)
IsSquareAttackedByColor ==
    /\ answer = None
    /\ \E sq \in { ChessField(r, c) : r \in 0..7, c \in 0..7 } :
          \E color \in {White, Black} :
             answer' = Some([asked |-> "is_square_attacked_by_color", square |-> sq,
                             color |-> color,
                             said |-> is_square_attacked_by_color(board, sq.row, sq.col, color)])
    /\ UNCHANGED <<boardVars, perftVars, historyVars, engineVars, text, parse_result>>

\* board.is_checkmate()
IsCheckmate ==
    /\ answer = None
    /\ answer' = Some([asked |-> "is_checkmate", square |-> NoField,
                       color |-> board.active_color, said |-> is_checkmate(board)])
    /\ UNCHANGED <<boardVars, perftVars, historyVars, engineVars, text, parse_result>>

\* board.is_stalemate()
IsStalemate ==
    /\ answer = None
    /\ answer' = Some([asked |-> "is_stalemate", square |-> NoField,
                       color |-> board.active_color, said |-> is_stalemate(board)])
    /\ UNCHANGED <<boardVars, perftVars, historyVars, engineVars, text, parse_result>>

QuestionNext == IsSquareAttackedByColor \/ IsCheckmate \/ IsStalemate

QuestionSpec == InitQuestion /\ [][QuestionNext]_vars

PerftNext == MakeMove \/ Perft

PerftSpec == InitBoard /\ [][PerftNext]_vars

EngineNext ==
    \/ Position \/ Go \/ Stop \/ DisplayWaits \/ DisplayLocks \/ Tick
    \/ WorkerLock \/ IterStart \/ LoopCheck \/ Remaining
    \/ RootStart \/ RootLoop \/ Enter \/ Loop \/ Return \/ RootReturn
    \/ IterReturn \/ Finish

EngineSpec == EngineInit /\ [][EngineNext]_vars

-----------------------------------------------------------------------------
(* engine_alpha_beta.rs: find_best_move called directly, as the tests do *)

\* the deepest search the model requests
DeepestRequest == 19

\* the tests call depth 0 and more; the model samples the smallest depths
\* and the deepest
RequestedDepths == {0, 1, DeepestRequest}

\* Duration::from_secs(60 * 60), line 129
ONE_HOUR == 3600

\* AlphaBetaEngine::with_board(ChessBoard::from_fen(..)), lines 41-46; the
\* calling thread owns the engine
WithBoard ==
    /\ engine_board \in { from_fen(f).board : f \in {INITIAL_POSITION, FEN_PERFT3} }
    /\ repetition_map = insert_hash(EmptyMap, engine_board.hash)
    /\ principal_variation = NewPrincipalVariation
    /\ last_pvs = << >>
    /\ aborted = FALSE
    /\ mutex = 1
    /\ poisoned = FALSE
    /\ main = "running"
    /\ worker = [w \in Workers |-> IF w = 1 THEN [NewWorker EXCEPT !.pc = "searching"]
                                             ELSE NewWorker]
    /\ phase = "idle"
    /\ elapsed = 0
    /\ iterative = IdleIterative
    /\ root = IdleRoot
    /\ stack = << >>
    /\ ret = NoRet
    /\ completed = None
    /\ returned = NoReturn
    /\ board = NewBoard
    /\ parent = NewBoard
    /\ last_move = None
    /\ plies = 0
    /\ panic_at = 0
    /\ text = << >>
    /\ parse_result = None
    /\ answer = None
    /\ perft_depth = 0
    /\ perft_result = None
    /\ board_repetition_map = << >>
    /\ game = << >>

\* find_best_move(depth, false), lines 128-130
FindBestMove ==
    /\ Alive
    /\ mutex # 0
    /\ phase = "idle"
    /\ root = IdleRoot
    /\ \E depth \in RequestedDepths :
          iterative' = [IdleIterative EXCEPT !.depth = depth, !.remaining_time = ONE_HOUR]
    /\ phase' = "root_start"
    /\ UNCHANGED <<engine_board, repetition_map, principal_variation, last_pvs, aborted, mutex,
                   poisoned, main, worker, elapsed, root, stack, ret, completed, returned>>
    /\ UNCHANGED <<boardVars, perftVars, historyVars, textVars>>

\* find_best_move returns what find_best_move_with_timeout returned
Found ==
    /\ Alive
    /\ mutex # 0
    /\ phase = "iter_ret"
    /\ phase' = "idle"
    /\ UNCHANGED <<engine_board, repetition_map, principal_variation, last_pvs, aborted, mutex,
                   poisoned, main, worker, elapsed, iterative, root, stack, ret, completed,
                   returned>>
    /\ UNCHANGED <<boardVars, perftVars, historyVars, textVars>>

DepthNext ==
    \/ FindBestMove
    \/ RootStart
    \/ RootLoop
    \/ Enter
    \/ Loop
    \/ Return
    \/ RootReturn
    \/ Found

DepthSpec == WithBoard /\ [][DepthNext]_vars

-----------------------------------------------------------------------------
(* uci.rs lines 48-52: `position fen .. moves ..`, one move string at a time *)

\* the move strings the model plays on a set position
MaxMoveStrings == 1

\* 1k6/q6P/8/2n5/5p2/8/6P1/R3K2R w KQ - 0 1   (chess_board.rs test_hashing)
FEN_HASHING ==
    <<"1", "k", "6", "/", "q", "6", "P", "/", "8", "/", "2", "n", "5", "/", "5", "p", "2",
      "/", "8", "/", "6", "P", "1", "/", "R", "3", "K", "2", "R", " ", "w", " ", "K", "Q",
      " ", "-", " ", "0", " ", "1">>

\* every string of two squares: the legal moves of a position and the rest
MoveStrings ==
    { <<Files[a], Ranks[b], Files[c], Ranks[d]>> : a \in 1..8, b \in 1..8, c \in 1..8, d \in 1..8 }

\* engine.set_position(start_fen).unwrap(), uci.rs line 49
PositionIsSet ==
    /\ engine_board \in { set_position([board |-> NewBoard, map |-> EmptyMap], fen).board :
                             fen \in {INITIAL_POSITION, FEN_HASHING} }
    /\ repetition_map = insert_hash(EmptyMap, engine_board.hash)
    /\ principal_variation = NewPrincipalVariation
    /\ last_pvs = << >>
    /\ aborted = FALSE
    /\ mutex = 0
    /\ poisoned = FALSE
    /\ main = "running"
    /\ worker = [w \in Workers |-> NewWorker]
    /\ phase = "idle"
    /\ elapsed = 0
    /\ iterative = IdleIterative
    /\ root = IdleRoot
    /\ stack = << >>
    /\ ret = NoRet
    /\ completed = None
    /\ returned = NoReturn
    /\ board = NewBoard
    /\ parent = engine_board
    /\ last_move = None
    /\ plies = 0
    /\ panic_at = 0
    /\ text = << >>
    /\ parse_result = None
    /\ answer = None
    /\ perft_depth = 0
    /\ perft_result = None
    /\ board_repetition_map = << >>
    /\ game = << >>

\* engine.make_move(mv.as_str()).unwrap(), uci.rs line 51: the string is
\* parsed and made on the engine's board, legal or not
PlayMoveString ==
    /\ plies < MaxMoveStrings
    /\ \E str \in MoveStrings :
          \E e \in {engine_make_move([board |-> engine_board, map |-> repetition_map], str)} :
             /\ engine_board' = e.board
             /\ repetition_map' = e.map
             /\ last_move' = Some(from_algebraic(str))
    /\ parent' = engine_board
    /\ plies' = plies + 1
    /\ UNCHANGED <<board, panic_at, perftVars, historyVars, textVars, principal_variation, last_pvs, aborted, mutex,
                   poisoned,
                   main, worker, phase, elapsed, iterative, root, stack, ret, completed,
                   returned>>

MovesNext == PlayMoveString

MovesSpec == PositionIsSet /\ [][MovesNext]_vars

-----------------------------------------------------------------------------
(* Properties of the board under play *)

Colors == {White, Black}

Fields == { ChessField(r, c) : r \in 0..7, c \in 0..7 }

\* the piece type that get_piece_type_index numbers t
KindOfIndex(t) == CHOOSE k \in {King, Queen, Rook, Bishop, Knight, Pawn} :
                      get_piece_type_index(k) = t

\* the squares on which `squares` holds a piece of colour c and type k
SquaresHolding(b, c, k) == { f \in Fields : SquareAt(b, f) = Piece(c, k) }

\* the squares on which `squares` holds a piece of colour c
SquaresOfColor(b, c) == { f \in Fields : SquareAt(b, f).color = c }

\* the fields in the slice positions[index[t] .. index[t+1]] of colour c's list
ListSlice(b, c, t) ==
    { PositionsOf(b, c)[i] : i \in PiecesOf(b, c)[t] .. (PiecesOf(b, c)[t + 1] - 1) }

\* the move just made was an en-passant capture
WasEnPassant ==
    /\ IsSome(last_move)
    /\ IsSome(parent.en_passant)
    /\ Unwrap(last_move).to = Unwrap(parent.en_passant)
    /\ SquareAt(parent, Unwrap(last_move).from).kind = Pawn

\* the move just made was a castling move
WasCastling ==
    /\ IsSome(last_move)
    /\ SquareAt(parent, Unwrap(last_move).from).kind = King
    /\ Unwrap(last_move).from.col = 4
    /\ Unwrap(last_move).to.col \in {2, 6}

\* the move just made was a promotion
WasPromotion == IsSome(last_move) /\ IsSome(Unwrap(last_move).promotion)

\* the move just made captured the piece on its destination
WasCapture == IsSome(last_move) /\ IsOccupied(SquareAt(parent, Unwrap(last_move).to))

\* C1: on a board built by from_fen and after every make_move of a move of
\* generate_legal_moves, the incrementally maintained hash equals
\* calculate_hash of the board (captures, en-passant captures, castling,
\* double pushes and promotions included).
C1_HashIsReference == board.hash = calculate_hash(board)

\* an en-passant capture has been made, and the en-passant square it used
\* came from a double push
C1_Witness == plies = 2 /\ WasEnPassant /\ board.hash # parent.hash

\* C2: after from_fen and after every make_move of a legal move, for each
\* colour and piece type t the slice positions[index[t] .. index[t+1]] holds
\* exactly the squares where `squares` has a piece of that colour and type,
\* index[6] is the number of that colour's pieces, and slot 0 is the king's
\* square.
C2_PieceListsAgree ==
    \A c \in Colors :
        /\ \A t \in 0..5 : ListSlice(board, c, t) = SquaresHolding(board, c, KindOfIndex(t))
        /\ PiecesOf(board, c)[6] = Cardinality(SquaresOfColor(board, c))
        /\ SquareAt(board, PositionsOf(board, c)[0]) = Piece(c, King)

\* a pawn has captured a piece and promoted, so one list lost an entry in its
\* middle and the other exchanged a pawn for a piece
C2_Witness == WasPromotion /\ WasCapture

\* on board `after`, a king of colour c stands on a square the other colour attacks
KingAttackedOn(after, c) ==
    \E f \in SquaresHolding(after, c, King) :
        is_square_attacked_by_color(after, f.row, f.col, opposite(c))

\* applying mv to a copy of b leaves the mover's king attacked
ExposesKing(b, mv) == KingAttackedOn(make_move(b, mv), b.active_color)

PseudoMoveSet(b) == MoveSet(MovesOf(generate_pseudo_moves(b)))

LegalMoveSet(b) == MoveSet(legal_moves(b))

DroppedMoves(b) == PseudoMoveSet(b) \ LegalMoveSet(b)

LegalIsFilteredPseudo(b, pseudo, legal) ==
    /\ legal \subseteq pseudo
    /\ \A mv \in pseudo : (mv \notin legal) <=> ExposesKing(b, mv)

\* C3: generate_legal_moves(p) is a subset of generate_pseudo_moves(p), and
\* a pseudo-legal move is dropped if and only if the mover's king is attacked
\* by the opponent after the move is applied to a copy of p.
C3_LegalIsFilteredPseudo ==
    LegalIsFilteredPseudo(board, PseudoMoveSet(board), LegalMoveSet(board))

\* a position reached by play where some pseudo-legal moves are dropped and
\* others are kept
C3_Witness ==
    /\ plies > 0
    /\ DroppedMoves(board) # {}
    /\ LegalMoveSet(board) # {}

-----------------------------------------------------------------------------
(* Properties of perft *)

\* the sum of perft(child, depth) over the boards one move of `moves` away
RECURSIVE SumOverChildren(_, _, _)
SumOverChildren(b, moves, depth) ==
    IF moves = {} THEN 0
    ELSE LET mv == CHOOSE x \in moves : TRUE
         IN  perft(make_move(b, mv), depth) + SumOverChildren(b, moves \ {mv}, depth)

\* the node counts asserted in perft.rs, lines 21-60, up to depth 4
PerftReference ==
    { [fen |-> INITIAL_POSITION, depth |-> 3, count |-> 8902],
      [fen |-> INITIAL_POSITION, depth |-> 4, count |-> 197281],
      [fen |-> FEN_PERFT2, depth |-> 1, count |-> 48],
      [fen |-> FEN_PERFT2, depth |-> 2, count |-> 2039],
      [fen |-> FEN_PERFT2, depth |-> 3, count |-> 97862],
      [fen |-> FEN_PERFT2, depth |-> 4, count |-> 4085603],
      [fen |-> FEN_PERFT3, depth |-> 1, count |-> 14],
      [fen |-> FEN_PERFT3, depth |-> 2, count |-> 191],
      [fen |-> FEN_PERFT3, depth |-> 3, count |-> 2812],
      [fen |-> FEN_PERFT3, depth |-> 4, count |-> 43238],
      [fen |-> FEN_PERFT4W, depth |-> 1, count |-> 6],
      [fen |-> FEN_PERFT4W, depth |-> 2, count |-> 264],
      [fen |-> FEN_PERFT4W, depth |-> 3, count |-> 9467],
      [fen |-> FEN_PERFT4W, depth |-> 4, count |-> 422333] }

\* the asserted count, if any, for perft of board b at the given depth
ReferenceCounts(b, depth) ==
    { r.count : r \in { q \in PerftReference :
                          q.depth = depth /\ from_fen(q.fen).board = b } }

PerftAgrees(b, depth, count) ==
    /\ depth = 0 => count = 1
    /\ depth > 0 => count = SumOverChildren(b, LegalMoveSet(b), depth - 1)
    /\ \A n \in ReferenceCounts(b, depth) : count = n

-----------------------------------------------------------------------------
(* Properties of the search and of the UCI driver *)

\* the phases in which find_best_move_iterative holds its best move, the
\* return into it excepted
SearchPhases ==
    {"loop_check", "remaining", "root_start", "root_loop", "enter", "loop", "ret", "root_ret",
     "finish"}

\* C5: find_best_move_iterative returns the principal variation, score, node
\* total and depth recorded at the last depth whose search returned a value;
\* a depth cut short by the deadline or by the abort flag changes no
\* component of the result, whenever the deadline or the abort occurs.
C5_ReturnsLastCompletedDepth == phase \in SearchPhases => iterative.best_move = completed

\* the search returns depth 1 after a depth 2 that was cut short when a root
\* move of it had already replaced the line of depth 1
C5_Witness ==
    /\ phase = "finish"
    /\ IsSome(completed)
    /\ root.result = None
    /\ IsSome(root.best_move)
    /\ BestLine(principal_variation) # Unwrap(completed).pv

\* a step of the searching worker
WorkerStepped == <<phase, stack, ret>>' # <<phase, stack, ret>>

\* a call entered after the deadline or under the abort flag returns None
\* and has touched neither the node count, the map nor the lines
ExpiredEntryReturnsNone ==
    (phase = "enter" /\ Expired(root.deadline) /\ WorkerStepped)
        => /\ ret' = RetNone
           /\ stack' = Pop(stack)
           /\ UNCHANGED <<repetition_map, principal_variation, root>>

\* a caller that receives None returns None and leaves the lines, its
\* callers and the root as they are
NonePropagates ==
    (phase = "ret" /\ ret = RetNone /\ WorkerStepped)
        => /\ ret' = RetNone
           /\ stack' = Pop(stack)
           /\ UNCHANGED <<principal_variation, root>>

\* find_best_move_with_timeout receives None and returns None
NoneEndsTheDepth ==
    (phase = "root_ret" /\ ret = RetNone /\ WorkerStepped)
        => /\ phase' = "iter_ret"
           /\ root' = [root EXCEPT !.result = None]
           /\ UNCHANGED principal_variation

\* C6: negamax or the quiescence search entered after the deadline has passed
\* or while the abort flag is set returns None before doing any work, and
\* every caller that receives None from a child returns None itself without
\* updating its best score, alpha or principal variation, up to
\* find_best_move_with_timeout, which then returns None.
C6_NoneIsImmediateAndPropagates ==
    [][ExpiredEntryReturnsNone /\ NonePropagates /\ NoneEndsTheDepth]_vars

\* a None that arose in the quiescence search two plies or more below the
\* root has come up to find_best_move_with_timeout
C6_Witness ==
    /\ phase = "iter_ret"
    /\ root.result = None
    /\ returned.value = None
    /\ returned.ply = 1
    /\ ~returned.expired
    /\ returned.origin_kind = "quiescence"
    /\ returned.origin_ply >= 2

\* C7: a `stop` the main thread processes at any time after a `go`, also
\* before the worker has begun to search, is observed by the worker's
\* search: the abort flag set for a worker is still set while that worker
\* searches.
C7_StopIsObserved ==
    \A w \in Workers : (worker[w].pc = "searching" /\ worker[w].stopped) => aborted

\* C8: every `go` is followed by exactly one `bestmove` line from its worker:
\* a worker thread that has ended has printed one.
C8_OneBestmovePerGo ==
    \A w \in Workers : worker[w].pc \in {"done", "panicked"} => Len(worker[w].bestmove) = 1

\* the calls of negamax on the stack that hold their position in the map
PathCount(hash) ==
    Cardinality({ i \in 1..Len(stack) : stack[i].inserted /\ stack[i].hash = hash })

\* the map is the map at the root call plus the positions of the path
TracksThePath ==
    \A hash \in (DOMAIN repetition_map) \cup (DOMAIN root.entry_map)
                  \cup { stack[i].hash : i \in 1..Len(stack) } :
        MapCount(repetition_map, hash) = MapCount(root.entry_map, hash) + PathCount(hash)

\* C9: the repetition map tracks the search path exactly; when a call of
\* negamax or of find_best_move_with_timeout returns, with a value or with
\* None, the map is equal to the map before the call, and the engine's own
\* board is unchanged.
C9_MapRestoredOnReturn ==
    /\ phase \in {"root_loop", "enter", "loop", "ret", "root_ret", "iter_ret"}
           => TracksThePath /\ engine_board = root.entry_board
    /\ phase \in {"ret", "root_ret"} => repetition_map = returned.entry_map
    /\ phase = "iter_ret" => repetition_map = root.entry_map

\* below the root a negamax call that had entered its position and searched
\* a move has returned None, and the map is as it was when it was called
C9_Witness ==
    /\ phase = "ret"
    /\ returned.kind = "negamax"
    /\ returned.value = None
    /\ returned.recursed
    /\ ~returned.expired
    /\ repetition_map # root.entry_map

\* C10 as stated: negamax entered on a position whose hash has count 2 in
\* the map returns Some(0), whatever the deadline and the abort flag are
C10_DrawOnEveryEntry ==
    (phase \in {"ret", "root_ret"} /\ returned.kind = "negamax" /\ returned.entry_count = 2)
        => returned.value = Some(0)

\* C10: negamax entered, past its deadline check (lines 184-186 return None
\* first), on a position whose hash has count 2 in the map returns Some(0)
\* without generating moves, without recursing and without changing the map.
C10_ThirdOccurrenceIsDraw ==
    (phase \in {"ret", "root_ret"} /\ returned.kind = "negamax"
        /\ returned.entry_count = 2 /\ ~returned.expired)
        => /\ returned.value = Some(0)
           /\ ~returned.generated
           /\ ~returned.recursed
           /\ repetition_map = returned.entry_map

\* negamax has returned the draw for a position that the game had seen twice
C10_Witness ==
    /\ phase \in {"ret", "root_ret"}
    /\ returned.kind = "negamax"
    /\ returned.entry_count = 2
    /\ returned.value = Some(0)

-----------------------------------------------------------------------------
(* The search without cutoffs, as the reference of the pruned search *)

MaxOf(S) == CHOOSE x \in S : \A y \in S : y <= x

RECURSIVE NodesFrom(_, _)
NodesFrom(results, i) ==
    IF i > Len(results) THEN 0 ELSE results[i].nodes + NodesFrom(results, i + 1)

\* the best of `floor` and the negated scores of the children, and the
\* nodes of the call and of all its children
PlainValue(floor, results) ==
    [score |-> MaxOf({floor} \cup { -results[i].score : i \in 1..Len(results) }),
     nodes |-> 1 + NodesFrom(results, 1)]

RECURSIVE PlainQuiescence(_)
PlainQuiescenceOver(b, moves) ==
    PlainValue(StandPat(b), [i \in 1..Len(moves) |-> PlainQuiescence(make_move(b, moves[i]))])

\* stand pat and every legal capture, no window
PlainQuiescence(b) == PlainQuiescenceOver(b, generate_legal_capture_moves(b))

RECURSIVE PlainNegamax(_, _, _, _)
PlainNegamaxOver(b, depth, ply, map, moves) ==
    IF Len(moves) = 0
        THEN [score |-> IF is_checkmate(b) THEN LOSS - depth ELSE DRAW, nodes |-> 1]
        ELSE PlainValue(MIN_EVALUATION,
                        [i \in 1..Len(moves) |->
                            PlainNegamax(make_move(b, moves[i]), depth - 1, ply + 1, map)])

\* negamax with the same repetition rule, horizon, terminal scores and move
\* generation, and every move searched
PlainNegamax(b, depth, ply, map) ==
    IF MapCount(map, b.hash) = 2 THEN [score |-> 0, nodes |-> 1]
    ELSE IF depth <= 0 \/ ply > MAX_PLY THEN PlainQuiescence(b)
    ELSE PlainNegamaxOver(b, depth, ply, insert_hash(map, b.hash), generate_legal_moves(b, None))

\* the score of the root move mv
PlainRootScore(b, depth, map, mv) == -PlainNegamax(make_move(b, mv), depth, 1, map).score

PlainRootOver(b, depth, map, moves) ==
    PlainValue(I32_MIN, [i \in 1..Len(moves) |-> PlainNegamax(make_move(b, moves[i]), depth, 1, map)])

PlainRoot(b, depth, map) == PlainRootOver(b, depth, map, generate_legal_moves(b, None))

\* find_best_move_with_timeout has returned Some((move, score, nodes))
RootCompleted == phase = "iter_ret" /\ IsSome(root.result)

\* C11: the score find_best_move_with_timeout returns when it completes is
\* the score of the search of the same depth without any cutoff, and the
\* move it returns is a root move that attains this score.
C11_PruningIsSound ==
    RootCompleted =>
        /\ Unwrap(root.result)[2] = PlainRoot(engine_board, iterative.depth, root.entry_map).score
        /\ \E i \in 1..Len(root.moves) :
              /\ root.moves[i] = Unwrap(root.result)[1]
              /\ PlainRootScore(engine_board, iterative.depth, root.entry_map, root.moves[i])
                     = Unwrap(root.result)[2]

\* a completed search of depth 2 that visited fewer nodes than the search
\* without cutoffs: moves were pruned
C11_Witness ==
    /\ RootCompleted
    /\ iterative.depth = 2
    /\ Unwrap(root.result)[3] + 1
           < PlainRoot(engine_board, iterative.depth, root.entry_map).nodes

\* C12: every access to the principal-variation buffer uses a row index
\* below MAX_PLY: a call of negamax that is about to index the buffer with
\* its ply has a ply below MAX_PLY, for every depth find_best_move requests.
C12_IndexInRange ==
    (phase = "enter" /\ Top(stack).kind = "negamax" /\ ~Expired(root.deadline))
        => Top(stack).ply < MAX_PLY

-----------------------------------------------------------------------------
(* Properties of the moves of `position .. moves ..` *)

\* squares and the piece lists of b agree
PieceListsAgree(b) ==
    \A c \in Colors :
        /\ \A t \in 0..5 : ListSlice(b, c, t) = SquaresHolding(b, c, KindOfIndex(t))
        /\ PiecesOf(b, c)[6] = Cardinality(SquaresOfColor(b, c))

OneKingEach(b) == \A c \in Colors : Cardinality(SquaresHolding(b, c, King)) = 1

\* the move string just played was no legal move of the position
PlayedIllegal == IsSome(last_move) /\ Unwrap(last_move) \notin LegalMoveSet(parent)

\* C13: after a move string that is not a legal move of the position has
\* gone through engine make_move, squares and piece lists agree, the stored
\* hash is the reference hash and each colour has exactly one king.
C13_IllegalMoveKeepsIntegrity ==
    PlayedIllegal =>
        /\ PieceListsAgree(engine_board)
        /\ engine_board.hash = calculate_hash(engine_board)
        /\ OneKingEach(engine_board)

-----------------------------------------------------------------------------
(* Properties of positions reached by legal moves *)

-----------------------------------------------------------------------------
(* Properties of castling *)

\* the row of e1 for White and of e8 for Black
HomeRow(c) == IF c = White THEN 0 ELSE 7

\* the legal moves of b that move the king two columns from the e-file
CastlingMovesTo(b, col) ==
    { mv \in LegalMoveSet(b) : /\ SquareAt(b, mv.from).kind = King
                               /\ mv.from.col = 4
                               /\ mv.to.col = col }

\* the right of the side to move is set, the columns `empty` of its home row
\* are empty and no column of `safe` is attacked by the opponent
CastlingConditions(b, right, empty, safe) ==
    /\ b.castling_rights[right + (IF b.active_color = White THEN 0 ELSE 2)]
    /\ \A col \in empty : b.squares[HomeRow(b.active_color)][col] = Empty
    /\ \A col \in safe :
          ~is_square_attacked_by_color(b, HomeRow(b.active_color), col,
                                       opposite(b.active_color))

OnHomeRow(b, mv) ==
    mv.from.row = HomeRow(b.active_color) /\ mv.to.row = HomeRow(b.active_color)

\* C15: generate_legal_moves contains the king-side castling move (e1g1,
\* e8g8) only if the mover's king-side right is set, f and g of its home row
\* are empty and none of e, f, g is attacked by the opponent; it contains the
\* queen-side castling move (e1c1, e8c8) only if the queen-side right is set,
\* b, c and d are empty and none of e, d, c is attacked.
C15_CastlingOnlyWhenAllowed ==
    /\ \A mv \in CastlingMovesTo(board, 6) :
          OnHomeRow(board, mv) /\ CastlingConditions(board, 0, {5, 6}, {4, 5, 6})
    /\ \A mv \in CastlingMovesTo(board, 2) :
          OnHomeRow(board, mv) /\ CastlingConditions(board, 1, {1, 2, 3}, {4, 3, 2})

\* after play, castling is legal on one side and, with the right set and the
\* squares empty, missing on the other because of an attacked square
C15_Witness ==
    /\ plies > 0
    /\ \/ /\ CastlingMovesTo(board, 6) # {}
          /\ CastlingMovesTo(board, 2) = {}
          /\ CastlingConditions(board, 1, {1, 2, 3}, {})
       \/ /\ CastlingMovesTo(board, 2) # {}
          /\ CastlingMovesTo(board, 6) = {}
          /\ CastlingConditions(board, 0, {5, 6}, {})

\* castling_rights[r]: 0, 1 White's king and queen side, 2, 3 Black's
Rights == 0..3

\* the rook's corner of right r and the king's square of its colour
CornerOf(r) == [row |-> IF r < 2 THEN 0 ELSE 7, col |-> IF r \in {0, 2} THEN 7 ELSE 0]

KingSquareOf(r) == [row |-> IF r < 2 THEN 0 ELSE 7, col |-> 4]

\* mv starts on the king's square of r, or starts or ends on its corner
Touches(mv, r) == mv.from = KingSquareOf(r) \/ mv.from = CornerOf(r) \/ mv.to = CornerOf(r)

\* C16: make_move clears both rights of a colour when the move starts on its
\* king square (e1, e8), clears the right of a corner when the move starts or
\* ends on that corner, leaves every other right as it was, and never turns a
\* right from false to true.
C16_RightsOnlyCleared ==
    IsSome(last_move) =>
        \A r \in Rights :
            board.castling_rights[r] =
                (parent.castling_rights[r] /\ ~Touches(Unwrap(last_move), r))

\* a capture on a corner took a right that was set, and another right stayed
C16_Witness ==
    /\ IsSome(last_move)
    /\ \E r \in Rights : /\ parent.castling_rights[r]
                          /\ Unwrap(last_move).to = CornerOf(r)
    /\ \E r \in Rights : board.castling_rights[r]

\* the move just made took the king from the e-file to column king_to of the
\* same row while right `side` (0 king side, 1 queen side) of the mover was set
CastledTo(king_to, side) ==
    /\ IsSome(last_move)
    /\ SquareAt(parent, Unwrap(last_move).from).kind = King
    /\ Unwrap(last_move).from.col = 4
    /\ Unwrap(last_move).to.col = king_to
    /\ Unwrap(last_move).from.row = Unwrap(last_move).to.row
    /\ parent.castling_rights[side + (IF parent.active_color = White THEN 0 ELSE 2)]

\* what a castling move of the mover c on `row` leaves: king and rook on their
\* new squares in `squares` and in the piece lists, the hash of the new
\* position, no right for the mover, the opponent's rights and every other
\* square as before
CastlingDone(c, row, king_to, rook_from, rook_to) ==
    /\ board.squares[row][4] = Empty
    /\ board.squares[row][king_to] = Piece(c, King)
    /\ board.squares[row][rook_from] = Empty
    /\ board.squares[row][rook_to] = Piece(c, Rook)
    /\ \A f \in Fields : (f.row # row \/ f.col \notin {4, king_to, rook_from, rook_to})
                              => SquareAt(board, f) = SquareAt(parent, f)
    /\ ListSlice(board, c, get_piece_type_index(Rook)) =
          (ListSlice(parent, c, get_piece_type_index(Rook)) \ {ChessField(row, rook_from)})
              \cup {ChessField(row, rook_to)}
    /\ ListSlice(board, c, get_piece_type_index(King)) = {ChessField(row, king_to)}
    /\ \A o \in Colors : \A t \in 0..5 :
          (o # c \/ KindOfIndex(t) \notin {King, Rook})
              => ListSlice(board, o, t) = ListSlice(parent, o, t)
    /\ board.hash = calculate_hash(board)
    /\ \A r \in Rights :
          board.castling_rights[r] =
              (parent.castling_rights[r] /\ (r < 2) # (c = White))

\* C17: a king move from column 4 to column 6 (resp. 2) of one row, made with
\* the mover's king-side (resp. queen-side) right set, also moves the rook
\* from column 7 to 5 (resp. 0 to 3) in squares, piece list and hash;
\* afterwards both rights of the mover are false, the opponent's rights are
\* unchanged and no other square has changed.
C17_CastlingMovesTheRook ==
    /\ CastledTo(6, 0) =>
          CastlingDone(parent.active_color, Unwrap(last_move).from.row, 6, 7, 5)
    /\ CastledTo(2, 1) =>
          CastlingDone(parent.active_color, Unwrap(last_move).from.row, 2, 0, 3)

\* Black has castled queen-side after a white move; White keeps a right
C17_Witness ==
    /\ plies = 2
    /\ CastledTo(2, 1)
    /\ parent.active_color = Black
    /\ board.castling_rights[0] \/ board.castling_rights[1]

-----------------------------------------------------------------------------
(* Properties of the en-passant square and the move counters *)

\* the move just made advanced a pawn by two rows
WasDoublePush ==
    /\ IsSome(last_move)
    /\ SquareAt(parent, Unwrap(last_move).from).kind = Pawn
    /\ Unwrap(last_move).from.col = Unwrap(last_move).to.col
    /\ Unwrap(last_move).to.row - Unwrap(last_move).from.row \in {-2, 2}

\* the square the pawn of the last move passed over
PassedOver ==
    ChessField((Unwrap(last_move).from.row + Unwrap(last_move).to.row) \div 2,
               Unwrap(last_move).from.col)

\* C18: after every make_move, en_passant is non-empty if and only if the
\* move was a pawn advance of two rows, and then it names the square the pawn
\* passed over; after every other move it is empty.
C18_EnPassantAfterDoublePush ==
    IsSome(last_move) =>
        board.en_passant = (IF WasDoublePush THEN Some(PassedOver) ELSE None)

\* Black answers a double push with a double push: the square is replaced
C18_Witness ==
    /\ plies = 2
    /\ WasDoublePush
    /\ IsSome(parent.en_passant)
    /\ parent.active_color = Black
    /\ board.en_passant # parent.en_passant

\* the move just made was a pawn move or a capture
Irreversible ==
    \/ SquareAt(parent, Unwrap(last_move).from).kind = Pawn
    \/ WasCapture

\* C19: after make_move of a pawn move or of a capture (an en-passant capture
\* included) halfmove_clock is 0; after any other legal move it is the value
\* before the move plus one, for every value the 8-bit counter can hold
\* before the move; make_move returns for each of them.
C19_ClockCountsPlies ==
    /\ panic_at # 130
    /\ IsSome(last_move) =>
          board.halfmove_clock = (IF Irreversible THEN 0 ELSE parent.halfmove_clock + 1)

\* C20: fullmove_number grows by exactly one when the move hands the turn
\* from Black to White and stays as it was after a move of White, for every
\* value the 8-bit counter holds before the move; make_move returns for each
\* of them.
C20_NumberCountsBlackMoves ==
    /\ panic_at # 255
    /\ IsSome(last_move) =>
          board.fullmove_number =
              parent.fullmove_number + (IF parent.active_color = Black THEN 1 ELSE 0)

-----------------------------------------------------------------------------
(* Properties of the text forms of positions and moves *)

\* C21: from_fen(to_fen(p)) == p for every position p reached from a from_fen
\* board by legal moves, == being equality of the whole ChessBoard value
\* (squares, side to move, castling rights, en passant, both counters, hash,
\* last_capture and both piece lists).
C21_FenRoundTrip ==
    /\ from_fen(to_fen(board)).ok
    /\ from_fen(to_fen(board)).board = board

\* the columns a placement row describes: a digit its value, a letter one
RECURSIVE RowWidth(_)
RowWidth(row) ==
    IF row = << >> THEN 0
    ELSE (IF is_ascii_digit(Head(row)) THEN to_digit(Head(row)) ELSE 1) + RowWidth(Tail(row))

WellFormedRow(row) ==
    /\ \A i \in 1..Len(row) : is_ascii_digit(row[i]) \/ Contains(PieceChars, row[i])
    /\ RowWidth(row) = 8

WellFormedPlacement(p) ==
    /\ Len(Split(p, "/")) = 8
    /\ \A i \in 1..8 : WellFormedRow(Split(p, "/")[i])

WellFormedCastling(k) ==
    \/ k = <<"-">>
    \/ Len(k) > 0 /\ \A i \in 1..Len(k) : k[i] \in {"K", "Q", "k", "q"}

WellFormedSquare(e) ==
    \/ e = <<"-">>
    \/ Len(e) = 2 /\ Contains(Files, e[1]) /\ Contains(Ranks, e[2])

Numeric(n) == Len(n) > 0 /\ \A i \in 1..Len(n) : is_ascii_digit(n[i])

\* a well-formed six-field FEN
WellFormedFields(parts) ==
    /\ Len(parts) = 6
    /\ WellFormedPlacement(parts[1])
    /\ parts[2] \in {<<"w">>, <<"b">>}
    /\ WellFormedCastling(parts[3])
    /\ WellFormedSquare(parts[4])
    /\ Numeric(parts[5])
    /\ Numeric(parts[6])

WellFormedFen(fen) == WellFormedFields(Split(fen, " "))

\* C22: from_fen returns an error, and never a board, for every input that
\* is not a well-formed six-field FEN: a placement without 8 rows, a row of
\* more or fewer than 8 columns, an unknown piece letter, a colour other than
\* w/b, a castling field that is neither '-' nor made of K, Q, k, q only, an
\* en-passant field that is neither '-' nor a square, or a non-numeric clock.
C22_MalformedIsRejected ==
    (IsSome(parse_result) /\ ~WellFormedFen(text)) => ~Unwrap(parse_result).ok

\* C23: for every move m of generate_legal_moves of every reachable position
\* (each of the four promotion moves included),
\* Move::from_algebraic(m.as_algebraic()) == m.
C23_MoveRoundTrip ==
    (IsSome(parse_result) /\ panic_at = 0) => parse_result = last_move

\* a promotion to a knight was written with five characters and read back
C23_Witness ==
    /\ WasPromotion
    /\ Unwrap(last_move).promotion = Some(Knight)
    /\ Len(text) = 5
    /\ parse_result = last_move

-----------------------------------------------------------------------------
(* Properties of attack detection, checkmate and stalemate *)

Sign(x) == IF x > 0 THEN 1 ELSE IF x < 0 THEN -1 ELSE 0

Abs(x) == IF x < 0 THEN -x ELSE x

Longest(a, b) == IF Abs(a) > Abs(b) THEN Abs(a) ELSE Abs(b)

\* f and sq differ and lie on one row, column or diagonal as `diagonal` says,
\* with only empty squares between them
ClearLine(b, f, sq, diagonal) ==
    /\ f # sq
    /\ IF diagonal THEN Abs(sq.row - f.row) = Abs(sq.col - f.col)
                   ELSE sq.row = f.row \/ sq.col = f.col
    /\ \A k \in 1..(Longest(sq.row - f.row, sq.col - f.col) - 1) :
          b.squares[f.row + k * Sign(sq.row - f.row)][f.col + k * Sign(sq.col - f.col)] = Empty

\* the piece on f attacks sq by the rules of chess
PieceAttacks(b, f, sq) ==
    CASE SquareAt(b, f).kind = Rook -> ClearLine(b, f, sq, FALSE)
      [] SquareAt(b, f).kind = Bishop -> ClearLine(b, f, sq, TRUE)
      [] SquareAt(b, f).kind = Queen -> ClearLine(b, f, sq, FALSE) \/ ClearLine(b, f, sq, TRUE)
      [] SquareAt(b, f).kind = Knight ->
            {Abs(sq.row - f.row), Abs(sq.col - f.col)} = {1, 2}
      [] SquareAt(b, f).kind = Pawn ->
            /\ sq.row = f.row + (IF SquareAt(b, f).color = White THEN 1 ELSE -1)
            /\ Abs(sq.col - f.col) = 1
      [] SquareAt(b, f).kind = King ->
            f # sq /\ Abs(sq.row - f.row) <= 1 /\ Abs(sq.col - f.col) <= 1
      [] OTHER -> FALSE

\* some piece of colour c attacks sq
Attacked(b, sq, c) == \E f \in SquaresOfColor(b, c) : PieceAttacks(b, f, sq)

\* C24: on every board produced by from_fen (kings need not be present), for
\* every square and colour c, is_square_attacked_by_color is true exactly
\* when some piece of colour c attacks the square: a queen or rook on a clear
\* orthogonal ray, a queen or bishop on a clear diagonal ray, a knight at a
\* knight offset, a pawn on one of its two capture squares, or the king of c
\* on one of the eight adjacent squares; the square straight in front of a
\* lone pawn is not attacked.
C24_AttackedIffPieceAttacks ==
    (IsSome(answer) /\ Unwrap(answer).asked = "is_square_attacked_by_color") =>
        (Unwrap(answer).said <=> Attacked(board, Unwrap(answer).square, Unwrap(answer).color))

\* the side to move of b has a king, has no legal move, and its king is
\* attacked by the opponent as `attacked` says
NoMoveAnd(b, attacked) ==
    /\ LegalMoveSet(b) = {}
    /\ \A k \in SquaresHolding(b, b.active_color, King) :
          Attacked(b, k, opposite(b.active_color)) = attacked

\* C25: in every position in which the side to move has a king,
\* is_checkmate() is true iff generate_legal_moves is empty and the king is
\* attacked, is_stalemate() is true iff generate_legal_moves is empty and the
\* king is not attacked (so the two are never true together).
C25_MateAndStalemate ==
    (IsSome(answer) /\ SquaresHolding(board, board.active_color, King) # {}) =>
        /\ Unwrap(answer).asked = "is_checkmate" =>
              (Unwrap(answer).said <=> NoMoveAnd(board, TRUE))
        /\ Unwrap(answer).asked = "is_stalemate" =>
              (Unwrap(answer).said <=> NoMoveAnd(board, FALSE))

-----------------------------------------------------------------------------
(* C26 *)

\* the worker of a `go` is inside find_best_move_iterative
SearchRuns == mutex # 0 /\ worker[mutex].pc = "searching"

\* C26: the main thread blocks only on reading a line from stdin: while the
\* search of a `go` runs in the worker, the main thread is never waiting for
\* the engine, whatever command it has read.
C26_MainWaitsOnlyForStdin == SearchRuns => main # "waiting"

-----------------------------------------------------------------------------
(* C27 *)

\* C27: the expiry of the deadline and an abort are reported in the return
\* value only: whenever the deadline passes or the abort flag is set, no
\* worker thread ends in a panic (neither inside find_best_move_iterative
\* nor in the closure of `go` around it), and the engine's mutex is not
\* poisoned for the commands that follow.
C27_ExpiryAndAbortNeverPanic ==
    /\ \A w \in Workers : worker[w].pc # "panicked"
    /\ Alive => ~poisoned

-----------------------------------------------------------------------------
(* C28 *)

\* negamax is about to run on a position without a legal move, with depth >= 1
EntersWithoutMove ==
    /\ mutex # 0
    /\ phase = "enter"
    /\ Top(stack).kind = "negamax"
    /\ Top(stack).depth >= 1
    /\ generate_legal_moves(Top(stack).board, None) = << >>

\* by the rules of chess, the king of the side to move stands attacked
MoverInCheck(b) ==
    \E f \in SquaresHolding(b, b.active_color, King) : Attacked(b, f, opposite(b.active_color))

\* what the claim has negamax return on such a position
MateOrDraw(f) == IF MoverInCheck(f.board) THEN Some(LOSS - f.depth) ELSE Some(DRAW)

\* the score of a mate found with `depth` plies left, seen from the mating side
MateScore(depth) == -(LOSS - depth)

\* the root moves after which the opponent is mated at once
MatingMoves(b) ==
    { mv \in MoveSet(generate_legal_moves(b, None)) :
        /\ generate_legal_moves(make_move(b, mv), None) = << >>
        /\ MoverInCheck(make_move(b, mv)) }

\* a mate found with more depth left scores higher for the mating side, and
\* a completed depth on a position with a mate in one returns a mating move
\* with the score of the mate at that depth
PrefersFastestMate ==
    /\ \A d1, d2 \in 1..MAX_PLY : d1 > d2 => MateScore(d1) > MateScore(d2)
    /\ (mutex # 0 /\ phase = "iter_ret" /\ IsSome(root.result)
            /\ MatingMoves(engine_board) # {})
         => /\ Unwrap(root.result)[1] \in MatingMoves(engine_board)
            /\ Unwrap(root.result)[2] = MateScore(iterative.depth)

NoMovePastEntryCheck ==
    (EntersWithoutMove /\ ~Expired(root.deadline) /\ WorkerStepped)
        => /\ ret' = <<MateOrDraw(Top(stack))>>
           /\ stack' = Pop(stack)

-----------------------------------------------------------------------------
(* C29 *)

\* the line stored for `ply`: the first principal_variation[ply].1 moves
LineAt(pv, ply) == [i \in 1..pv[ply].len |-> pv[ply].moves[i - 1]]

\* every move of `line` is a legal move of the position reached by playing
\* the moves before it from b
RECURSIVE LegalLine(_, _)
LegalLine(b, line) ==
    \/ line = << >>
    \/ /\ Head(line) \in MoveSet(generate_legal_moves(b, None))
       /\ LegalLine(make_move(b, Head(line)), Tail(line))

\* find_best_move_with_timeout has returned a move for the depth
DepthCompleted == mutex # 0 /\ phase = "iter_ret" /\ IsSome(root.result)

\* the line of a completed depth starts with the returned move and can be
\* played from the root
LineOfCompletedDepth ==
    DepthCompleted =>
        /\ principal_variation[0].len >= 1
        /\ principal_variation[0].moves[0] = Unwrap(root.result)[1]
        /\ LegalLine(engine_board, LineAt(principal_variation, 0))

\* a root move that becomes the best move stores itself followed by the
\* line of the call that searched it
RootLineIsChildPlusOne ==
    (mutex # 0 /\ phase = "root_ret" /\ WorkerStepped /\ root'.best_score # root.best_score)
        => /\ principal_variation'[0].len = principal_variation[1].len + 1
           /\ LineAt(principal_variation', 0) = <<root.mv>> \o LineAt(principal_variation, 1)

\* C29: after every completed depth the stored principal variation pv[0] is
\* non-empty, its first move is the best root move returned for that depth,
\* its length is the length of the child's line plus one, and every move of
\* it is legal in the position reached by playing the moves before it from
\* the root.
C29_PrincipalVariationIsALine ==
    []LineOfCompletedDepth /\ [][RootLineIsChildPlusOne]_vars

\* depth 2 has completed with a line of two moves or more, while the row of
\* ply 1 holds the shorter line of a root move searched later
C29_Witness ==
    /\ DepthCompleted
    /\ iterative.depth = 2
    /\ principal_variation[0].len >= 2
    /\ principal_variation[1].len + 1 < principal_variation[0].len

-----------------------------------------------------------------------------
(* C30 *)

\* the number of pieces on the board
PieceCount(b) == Cardinality({ f \in Fields : IsOccupied(SquareAt(b, f)) })

\* the calls on the stack that quiescence_search_prunning made of itself
RecursiveQuiescence ==
    { i \in 1..Len(stack) : stack[i].kind = "quiescence" /\ stack[i].caller = "quiescence" }

\* the call of quiescence_search_prunning that negamax made, if one is on the stack
OutermostQuiescence ==
    { i \in 1..Len(stack) : stack[i].kind = "quiescence" /\ stack[i].caller = "negamax" }

\* every call the quiescence search makes of itself is on the board after a
\* move of its caller onto a piece of the opponent, with one piece fewer
EachCallFollowsACapture ==
    \A i \in RecursiveQuiescence :
        /\ stack[i - 1].kind = "quiescence"
        /\ IsOccupied(SquareAt(stack[i - 1].board, stack[i - 1].mv.to))
        /\ SquareAt(stack[i - 1].board, stack[i - 1].mv.to).color = stack[i].board.active_color
        /\ stack[i].board = make_move(stack[i - 1].board, stack[i - 1].mv)
        /\ PieceCount(stack[i].board) = PieceCount(stack[i - 1].board) - 1

\* the recursion is no deeper than the pieces that could be captured
DepthWithinCaptures ==
    \A i \in OutermostQuiescence :
        /\ Cardinality(RecursiveQuiescence) <= PieceCount(stack[i].board) - 2
        /\ Cardinality(RecursiveQuiescence) <= 30

\* C30: the quiescence search terminates without the deadline, by a measure
\* that falls with every call: every call it makes of itself follows a
\* capture that lowers the number of pieces on the board by one, so its
\* recursion depth never exceeds the number of pieces that can be captured
\* (at most 30).
C30_QuiescenceTerminates == EachCallFollowsACapture /\ DepthWithinCaptures

\* the quiescence search is three captures deep, with the deadline an hour away
C30_Witness ==
    /\ Cardinality(RecursiveQuiescence) >= 3
    /\ ~Expired(root.deadline)

-----------------------------------------------------------------------------
(* C31 *)

\* the legal moves of b whose destination holds a piece of the opponent
LegalMovesOntoEnemy(b) ==
    { mv \in LegalMoveSet(b) :
        /\ IsOccupied(SquareAt(b, mv.to))
        /\ SquareAt(b, mv.to).color = opposite(b.active_color) }

\* the legal en-passant captures of b
LegalEnPassant(b) ==
    { mv \in LegalMoveSet(b) :
        /\ SquareAt(b, mv.from).kind = Pawn
        /\ IsSome(b.en_passant)
        /\ mv.to = Unwrap(b.en_passant) }

\* C31: generate_legal_capture_moves returns, as a set, exactly the moves of
\* generate_legal_moves whose destination square holds a piece of the
\* opponent before the move: the four promotions of a capturing promotion
\* are in it, en-passant captures are not.
C31_CapturesAreLegalMovesOntoEnemy ==
    MoveSet(generate_legal_capture_moves(board)) = LegalMovesOntoEnemy(board)

\* a position reached by play with a capturing promotion among its capture
\* moves, and with a capture that is not legal left out
C31_Witness ==
    /\ plies > 0
    /\ \E mv \in MoveSet(generate_legal_capture_moves(board)) :
          /\ IsSome(mv.promotion)
          /\ \A k \in {Queen, Rook, Bishop, Knight} :
                [mv EXCEPT !.promotion = Some(k)] \in MoveSet(generate_legal_capture_moves(board))
    /\ MoveSet(generate_capture_moves(board)) # MoveSet(generate_legal_capture_moves(board))

\* a position reached by play whose legal moves hold an en-passant capture
EnPassantLeftOut ==
    /\ LegalEnPassant(board) # {}
    /\ LegalEnPassant(board) \cap MoveSet(generate_legal_capture_moves(board)) = {}

-----------------------------------------------------------------------------
(* C32 *)

PieceKinds == {Pawn, Knight, Bishop, Rook, Queen, King}

\* the piece values the claim names
V(k) ==
    CASE k = Pawn -> 1 [] k = Knight -> 3 [] k = Bishop -> 3
      [] k = Rook -> 5 [] k = Queen -> 9 [] k = King -> 15

\* the score the claim gives the capture of `victim` by `attacker`
ClaimedScore(attacker, victim) == 10010 + 1000 * (V(victim) - V(attacker)) + 9 * V(victim)

\* compute_capture_score for a white `attacker` on a1 and a black `victim` on b1
ScoreOfKinds(attacker, victim) ==
    compute_capture_score(
        [NewBoard EXCEPT !.squares[0][0] = Piece(White, attacker),
                         !.squares[0][1] = Piece(Black, victim)],
        Move(0, 0, 0, 1))

\* the pseudo-legal moves of b from and onto an occupied square, with scores
ScoredCaptures(b) ==
    { m \in MoveSet(generate_pseudo_moves(b)) : IsOccupied(SquareAt(b, m[2].to)) }

\* most valuable victim first, then least valuable attacker
MvvLva ==
    /\ \A a, v1, v2 \in PieceKinds :
           V(v1) > V(v2) => ScoreOfKinds(a, v1) > ScoreOfKinds(a, v2)
    /\ \A v, a1, a2 \in PieceKinds :
           V(a1) < V(a2) => ScoreOfKinds(a1, v) > ScoreOfKinds(a2, v)

\* C32: the capture score is CAPTURE_BASE (10010) + 1000*(V(victim) -
\* V(attacker)) + 9*V(victim) with V(P)=1, V(N)=V(B)=3, V(R)=5, V(Q)=9,
\* V(K)=15, on every pair of piece types and on every capture of the board
\* under play, and it orders captures by most valuable victim, then least
\* valuable attacker.
C32_CaptureScoreIsMvvLva ==
    /\ CAPTURE_BASE = 10010
    /\ \A a, v \in PieceKinds : ScoreOfKinds(a, v) = ClaimedScore(a, v)
    /\ \A m \in ScoredCaptures(board) :
           compute_capture_score(board, m[2])
               = ClaimedScore(SquareAt(board, m[2].from).kind, SquareAt(board, m[2].to).kind)
    /\ MvvLva

\* a board reached by play on which one piece can take two victims of
\* different value and one victim can be taken by two attackers of different
\* value
C32_Witness ==
    /\ plies > 0
    /\ \E m, n \in ScoredCaptures(board) :
          /\ m[2].from = n[2].from
          /\ V(SquareAt(board, m[2].to).kind) > V(SquareAt(board, n[2].to).kind)
          /\ m[1] > n[1]
    /\ \E m, n \in ScoredCaptures(board) :
          /\ m[2].to = n[2].to
          /\ V(SquareAt(board, m[2].from).kind) < V(SquareAt(board, n[2].from).kind)
          /\ m[1] > n[1]

-----------------------------------------------------------------------------
(* C33 *)

\* generate_legal_moves without a hint, before the scores are dropped (line 322)
ScoredLegalMoves(b) ==
    SortDescending(compute_move_weights(FilterLegal(b, generate_pseudo_moves(b)), None))

\* the places of the list whose move takes the piece on its destination
TakingPlaces(b, list) == { i \in 1..Len(list) : IsOccupied(SquareAt(b, list[i][2].to)) }

\* the places of the list whose move neither takes a piece on its
\* destination nor promotes: quiet moves, castling, en passant
QuietPlaces(b, list) ==
    { i \in 1..Len(list) :
        ~IsOccupied(SquareAt(b, list[i][2].to)) /\ list[i][2].promotion = None }

\* a king that takes a pawn, a knight or a bishop
KingTakesMinor(b, mv) ==
    /\ SquareAt(b, mv.from).kind = King
    /\ SquareAt(b, mv.to).kind \in {Pawn, Knight, Bishop}

CapturesFirst(b, list) ==
    \A i \in TakingPlaces(b, list) : \A j \in QuietPlaces(b, list) :
        list[i][1] > list[j][1] /\ list[i][1] > CASTLING_SCORE /\ i < j

\* C33 as stated: in the list of generate_legal_moves without a hint every
\* move that captures a piece on its destination square scores strictly more
\* than every quiet move and than castling, whatever the attacker and the
\* victim are, and comes before every non-capturing non-promoting move.
C33_CapturesBeforeQuietMoves == CapturesFirst(board, ScoredLegalMoves(board))

CapturesFirstButKingTakesMinor(b, list) ==
    \A i \in TakingPlaces(b, list) : \A j \in QuietPlaces(b, list) :
        IF KingTakesMinor(b, list[i][2])
            THEN list[i][1] < list[j][1] /\ list[i][1] < NO_CAPTURE /\ i > j
            ELSE list[i][1] > list[j][1] /\ list[i][1] > CASTLING_SCORE /\ i < j

\* C33: in the list of generate_legal_moves without a hint every move that
\* captures a piece on its destination square, other than a king taking a
\* pawn, knight or bishop, scores strictly more than every quiet move and
\* than castling and comes before every non-capturing non-promoting move; a
\* king taking a pawn, knight or bishop scores below 0 and comes after all
\* of them.
C33_CapturesBeforeQuietMovesButKing ==
    /\ CapturesFirstButKingTakesMinor(board, ScoredLegalMoves(board))
    /\ MovesOf(ScoredLegalMoves(board)) = generate_legal_moves(board, None)
    /\ \A a, v \in PieceKinds :
           IF a = King /\ v \in {Pawn, Knight, Bishop}
               THEN ScoreOfKinds(a, v) < NO_CAPTURE
               ELSE ScoreOfKinds(a, v) > CASTLING_SCORE

\* the list holds a capture, then a quiet move, then a king taking a pawn,
\* knight or bishop
KingTakesLast(b, list) ==
    \E k \in TakingPlaces(b, list) :
        /\ KingTakesMinor(b, list[k][2])
        /\ \E j \in QuietPlaces(b, list) :
              /\ j < k
              /\ \E i \in TakingPlaces(b, list) : i < j

\* a board reached by play whose legal moves hold a capture by another
\* piece, then quiet moves, then a king taking a pawn, knight or bishop
C33_Witness == plies > 0 /\ KingTakesLast(board, ScoredLegalMoves(board))

-----------------------------------------------------------------------------
(* C34 *)

\* the board from_fen builds from the text of b: the same position, with the
\* piece lists in the order of the scan and no last capture
Rebuilt(b) == from_fen(to_fen(b)).board

\* two boards that hold the same position
SamePosition(a, b) ==
    /\ a.squares = b.squares
    /\ a.active_color = b.active_color
    /\ a.castling_rights = b.castling_rights
    /\ a.en_passant = b.en_passant

\* two boards that differ in the state the position does not show
OtherwiseDifferent(a, b) ==
    \/ a.white_pieces_positions # b.white_pieces_positions
    \/ a.black_pieces_positions # b.black_pieces_positions
    \/ a.last_capture # b.last_capture

SameLegalMoves(a, b) == generate_legal_moves(a, None) = generate_legal_moves(b, None)

SameCaptureMoves(a, b) == generate_legal_capture_moves(a) = generate_legal_capture_moves(b)

\* boards a and b, if they hold the same position, return the same legal moves
LegalMovesAgree(a, b) == SamePosition(a, b) => SameLegalMoves(a, b)

\* ... and the same legal moves and the same capture moves
MoveListsAgree(a, b) == SamePosition(a, b) => SameLegalMoves(a, b) /\ SameCaptureMoves(a, b)

\* generate_legal_moves is a function of the position
LegalMovesOfPositionOnly == LegalMovesAgree(board, Rebuilt(board))

\* C34: two boards that agree on squares, side to move, castling rights and
\* en passant and differ in the order inside a piece list, in last_capture
\* or in the clocks return the same sequence from generate_legal_moves and
\* the same sequence from generate_legal_capture_moves.
C34_OrderOfPositionOnly == MoveListsAgree(board, Rebuilt(board))

\* boards a and b hold the same position and differ in a piece list or in
\* last_capture
Twins(a, b) == SamePosition(a, b) /\ OtherwiseDifferent(a, b)

\* a board under play and the board rebuilt from its text are such a pair
TwinsDiffer == Twins(board, Rebuilt(board))

-----------------------------------------------------------------------------
(* C35 *)

\* the row towards which the pawns of colour c move
Forward(c) == IF c = White THEN 1 ELSE -1

LastRank(c) == IF c = White THEN 7 ELSE 0

\* the pawns of the side to move that stand one step from their last rank
PawnsAboutToPromote(b) ==
    { f \in SquaresHolding(b, b.active_color, Pawn) :
        f.row + Forward(b.active_color) = LastRank(b.active_color) }

\* the squares such a pawn can reach: straight ahead if empty, each forward
\* diagonal that holds a piece of the opponent
PromotionSquares(b, f) ==
    { d \in Fields :
        /\ d.row = LastRank(b.active_color)
        /\ \/ d.col = f.col /\ ~IsOccupied(SquareAt(b, d))
           \/ /\ d.col \in {f.col - 1, f.col + 1}
              /\ IsOccupied(SquareAt(b, d))
              /\ SquareAt(b, d).color = opposite(b.active_color) }

\* one move for each reachable square and each of the four piece types
FourPromotions(b, f) ==
    { [from |-> f, to |-> d, promotion |-> Some(k)] :
        d \in PromotionSquares(b, f), k \in {Queen, Rook, Bishop, Knight} }

\* the generator yields the four promotions of each reachable square, each
\* once, and nothing else
PromotionsGenerated(b) ==
    \A f \in PawnsAboutToPromote(b) :
        /\ MoveSet(MovesOf(generate_pawn_moves(b, f.row, f.col))) = FourPromotions(b, f)
        /\ Len(generate_pawn_moves(b, f.row, f.col)) = 4 * Cardinality(PromotionSquares(b, f))

\* the number of entries the piece list of colour c holds for type k
Listed(b, c, k) ==
    PiecesOf(b, c)[get_piece_type_index(k) + 1] - PiecesOf(b, c)[get_piece_type_index(k)]

\* make_move of a promotion has put the chosen piece on the destination
PromotionMade(before, mv, after) ==
    LET c == before.active_color
        k == Unwrap(mv.promotion)
    IN  /\ SquareAt(after, mv.to) = Piece(c, k)
        /\ SquareAt(after, mv.from) = Empty
        /\ Listed(after, c, Pawn) = Listed(before, c, Pawn) - 1
        /\ Listed(after, c, k) = Listed(before, c, k) + 1
        /\ mv.to \in ListSlice(after, c, get_piece_type_index(k))
        /\ mv.to \notin ListSlice(after, c, get_piece_type_index(Pawn))
        /\ mv.from \notin ListSlice(after, c, get_piece_type_index(Pawn))

\* C35: for a pawn one step from its last rank the generator yields, for
\* each destination it can reach, exactly four moves carrying promotion
\* Queen, Rook, Bishop and Knight and no move without promotion; make_move of
\* such a move leaves a piece of the chosen type and the mover's colour on
\* the destination, no pawn on source or destination, and in the mover's
\* piece list one pawn fewer and one more piece of the chosen type.
C35_FourPromotions ==
    /\ PromotionsGenerated(board)
    /\ WasPromotion => PromotionMade(parent, Unwrap(last_move), board)

\* a pawn that could promote on two squares or more has promoted by a
\* capture to a piece other than a queen
C35_Witness ==
    /\ WasPromotion
    /\ WasCapture
    /\ Unwrap(Unwrap(last_move).promotion) # Queen
    /\ Cardinality(PromotionSquares(parent, Unwrap(last_move).from)) >= 2


-----------------------------------------------------------------------------
(* C36 *)

\* the square of the pawn an en-passant capture takes
TakenSquare(mv) == ChessField(mv.from.row, mv.to.col)

\* the Zobrist key of the pawn an en-passant capture by `before`'s side takes
TakenKey(before, mv) ==
    piece_keys(opposite(before.active_color), Pawn,
               mv.from.row * BOARD_SIZE + mv.to.col)

\* make_move of an en-passant capture has taken the pawn beside the mover
EnPassantMade(before, mv, after) ==
    LET c == before.active_color
        o == opposite(c)
        taken == TakenSquare(mv)
    IN  /\ SquareAt(before, taken) = Piece(o, Pawn)
        /\ SquareAt(after, taken) = Empty
        /\ Listed(after, o, Pawn) = Listed(before, o, Pawn) - 1
        /\ ListSlice(after, o, get_piece_type_index(Pawn))
             = ListSlice(before, o, get_piece_type_index(Pawn)) \ {taken}
        /\ PiecesOf(after, o)[6] = PiecesOf(before, o)[6] - 1
        /\ TakenKey(before, mv) \in before.hash
        /\ TakenKey(before, mv) \notin after.hash
        /\ \A f \in Fields \ {mv.from, mv.to, taken} :
              SquareAt(after, f) = SquareAt(before, f)
        /\ SquareAt(after, mv.from) = Empty
        /\ SquareAt(after, mv.to) = Piece(c, Pawn)

\* the pseudo-legal pawn moves of b onto its en-passant square
PseudoEnPassant(b, pseudo) ==
    { mv \in pseudo :
        /\ IsSome(b.en_passant)
        /\ mv.to = Unwrap(b.en_passant)
        /\ SquareAt(b, mv.from).kind = Pawn }

\* each of them starts beside the en-passant square's column, one row behind it
EnPassantFromBeside(b, pseudo) ==
    \A mv \in PseudoEnPassant(b, pseudo) :
       /\ SquareAt(b, mv.from) = Piece(b.active_color, Pawn)
       /\ mv.from.row + Forward(b.active_color) = mv.to.row
       /\ (mv.from.col - mv.to.col = 1 \/ mv.to.col - mv.from.col = 1)

\* C36: make_move of a pawn move onto the en-passant square empties the square
\* (from.row, to.col), removes the pawn there from the opponent's piece list
\* and from the hash and changes no square but from, to and (from.row,
\* to.col); a pseudo-legal pawn move onto the en-passant square starts from a
\* pawn of the side to move on an adjacent column, one row behind the square.
C36_EnPassantTakesThePawnBeside ==
    /\ WasEnPassant => EnPassantMade(parent, Unwrap(last_move), board)
    /\ EnPassantFromBeside(board, PseudoMoveSet(board))

\* an en-passant capture has been made and the pawn beside the mover is gone
C36_Witness ==
    /\ WasEnPassant
    /\ SquareAt(board, TakenSquare(Unwrap(last_move))) = Empty
    /\ SquareAt(parent, TakenSquare(Unwrap(last_move))).kind = Pawn


-----------------------------------------------------------------------------
(* C37 *)

\* 8/4p3/8/3P4/8/8/8/8 b - - 0 1   (engine_alpha_beta.rs test_some_positions)
FEN_NO_KING ==
    <<"8", "/", "4", "p", "3", "/", "8", "/", "3", "P", "4", "/", "8", "/", "8", "/", "8", "/", "8", " ", "b", " ", "-", " ", "-", " ", "0", " ", "1">>

\* 8/4p3/8/8/8/8/4P3/8 b - - 0 1: the same without a king, the pawns far apart
FEN_NO_KING_APART ==
    <<"8", "/", "4", "p", "3", "/", "8", "/", "8", "/", "8", "/", "8", "/", "4", "P", "3", "/", "8", " ", "b", " ", "-", " ", "-", " ", "0", " ", "1">>

\* 8/4p3/8/8/8/8/4P3/8 w - - 0 1: the same with White to move
FEN_NO_KING_WHITE ==
    <<"8", "/", "4", "p", "3", "/", "8", "/", "8", "/", "8", "/", "8", "/", "4", "P", "3", "/", "8", " ", "w", " ", "-", " ", "-", " ", "0", " ", "1">>

\* engine.set_position of a position in which neither side has a king
WithKinglessBoard ==
    /\ engine_board \in { from_fen(f).board : f \in {FEN_NO_KING, FEN_NO_KING_APART, FEN_NO_KING_WHITE} }
    /\ repetition_map = insert_hash(EmptyMap, engine_board.hash)
    /\ principal_variation = NewPrincipalVariation
    /\ last_pvs = << >>
    /\ aborted = FALSE
    /\ mutex = 1
    /\ poisoned = FALSE
    /\ main = "running"
    /\ worker = [w \in Workers |-> IF w = 1 THEN [NewWorker EXCEPT !.pc = "searching"]
                                             ELSE NewWorker]
    /\ phase = "idle"
    /\ elapsed = 0
    /\ iterative = IdleIterative
    /\ root = IdleRoot
    /\ stack = << >>
    /\ ret = NoRet
    /\ completed = None
    /\ returned = NoReturn
    /\ board = NewBoard
    /\ parent = NewBoard
    /\ last_move = None
    /\ plies = 0
    /\ panic_at = 0
    /\ text = << >>
    /\ parse_result = None
    /\ answer = None
    /\ perft_depth = 0
    /\ perft_result = None
    /\ board_repetition_map = << >>
    /\ game = << >>

KinglessSpec == WithKinglessBoard /\ [][DepthNext]_vars

\* the side to move has no king on the board
MoverHasNoKing(b) == SquaresHolding(b, b.active_color, King) = {}

\* find_best_move has returned
SearchReturned == mutex # 0 /\ phase = "iter_ret"

\* C37: for a position whose side to move has no king generate_legal_moves
\* yields no move and find_best_move returns None.
C37_NoKingNoMove ==
    MoverHasNoKing(engine_board) =>
        /\ generate_legal_moves(engine_board, None) = << >>
        /\ SearchReturned => root.result = None

\* the position of the test: the only pawn of the side to move stands for its
\* king, and each of its moves ends beside the opposing pawn, which stands for
\* the opposing king
TestPositionHasNoMove ==
    engine_board = from_fen(FEN_NO_KING).board =>
        /\ generate_legal_moves(engine_board, None) = << >>
        /\ SearchReturned => root.result = None

\* with the pawns apart the pawn that stands for the king may move, and the
\* search has returned its double step
PawnStandsInForKing ==
    /\ from_fen(FEN_NO_KING_APART).ok
    /\ engine_board = from_fen(FEN_NO_KING_APART).board
    /\ MoverHasNoKing(engine_board)
    /\ find_king_position(engine_board, engine_board.active_color)
         = Some(ChessField(6, 4))
    /\ SearchReturned
    /\ IsSome(root.result)
    /\ Unwrap(root.result)[1].from = ChessField(6, 4)


-----------------------------------------------------------------------------
(* chess_board/mod.rs: the board that keeps its own repetition history *)

\* the plies the model plays on that board
MaxHistoryPlies == 36

\* CircularBuffer<32, u64>
HISTORY_CAPACITY == 32

\* 1rb2rk1/p4ppp/1p1qp1n1/3n2N1/2pP4/2P3P1/PPQ2PBP/R1B1R1K1 w - - 4 17
\* (test_three_fold_repetition)
FEN_REPETITION ==
    <<"1", "r", "b", "2", "r", "k", "1", "/", "p", "4", "p", "p", "p", "/", "1", "p", "1", "q",
      "p", "1", "n", "1", "/", "3", "n", "2", "N", "1", "/", "2", "p", "P", "4", "/", "2", "P",
      "3", "P", "1", "/", "P", "P", "Q", "2", "P", "B", "P", "/", "R", "1", "B", "1", "R", "1",
      "K", "1", " ", "w", " ", "-", " ", "-", " ", "4", " ", "1", "7">>

\* CircularBuffer::push_back: a full buffer drops its oldest element
push_back(buffer, x) ==
    IF Len(buffer) = HISTORY_CAPACITY THEN Append(Tail(buffer), x) ELSE Append(buffer, x)

\* a faulty variant: a buffer that never drops an element
push_back_unbounded(buffer, x) == Append(buffer, x)

\* the number of elements of `hashes` equal to h
Occurrences(hashes, h) == Cardinality({ i \in 1..Len(hashes) : hashes[i] = h })

\* the loop counts the stored hashes equal to the newest one
is_threefold_repetition(buffer) ==
    IF buffer = << >> THEN FALSE
    ELSE Occurrences(buffer, buffer[Len(buffer)]) >= 3

\* the moves of the test: e1e2, g8h8, e2e1, h8g8
TestMoves == { Move(0, 4, 1, 4), Move(1, 4, 0, 4), Move(7, 6, 7, 7), Move(7, 7, 7, 6) }

\* for White also the other rook's a1b1 and, later, b1a1: the model plays them
\* with the first rook on e1, a1b1 with the black king on g8 and b1a1 with it
\* on h8
DetourMoves(b) ==
    IF IsOccupied(SquareAt(b, ChessField(0, 4)))
        THEN (IF IsOccupied(SquareAt(b, ChessField(7, 6))) THEN {Move(0, 0, 0, 1)} ELSE {})
             \cup (IF IsOccupied(SquareAt(b, ChessField(7, 7))) THEN {Move(0, 1, 0, 0)} ELSE {})
        ELSE {}

\* those of them that move a piece of the side to move to an empty square
ShuttleMovesOf(b) ==
    { mv \in TestMoves \cup DetourMoves(b) :
        /\ IsOccupied(SquareAt(b, mv.from))
        /\ SquareAt(b, mv.from).color = b.active_color
        /\ SquareAt(b, mv.to) = Empty }

\* ChessBoard::from_fen pushes the hash of the position it has read
FromFenWithHistory ==
    /\ board = from_fen(FEN_REPETITION).board
    /\ board_repetition_map = push_back(<< >>, calculate_hash(board))
    /\ game = <<calculate_hash(board)>>
    /\ parent = board
    /\ last_move = None
    /\ plies = 0
    /\ panic_at = 0
    /\ text = << >>
    /\ parse_result = None
    /\ answer = None
    /\ perft_depth = 0
    /\ perft_result = None
    /\ EngineIdle

\* make_move ends with repetition_map.push_back(calculate_hash(self)); squares,
\* rights, en-passant square and side to move change as in chess_board.rs
MakeMoveWithHistory ==
    /\ plies < MaxHistoryPlies
    /\ \E mv \in ShuttleMovesOf(board) :
          /\ board' = make_move(board, mv)
          /\ last_move' = Some(mv)
    /\ parent' = board
    /\ plies' = plies + 1
    /\ board_repetition_map' = push_back(board_repetition_map, calculate_hash(board'))
    /\ game' = Append(game, calculate_hash(board'))
    /\ UNCHANGED <<panic_at, perftVars, engineVars, textVars>>

HistorySpec == FromFenWithHistory /\ [][MakeMoveWithHistory]_vars

-----------------------------------------------------------------------------
(* C38 *)

\* the occurrences of the current position among all positions of the game
OccurrencesInGame == Occurrences(game, game[Len(game)])

\* C38: on the board that keeps its own history is_threefold_repetition() is
\* true if and only if the hash of the current position has occurred at least
\* three times among all positions of the game since from_fen, however many
\* plies lie between the occurrences.
C38_ThreefoldIffThreeOccurrences ==
    game # << >> =>
        (is_threefold_repetition(board_repetition_map) <=> OccurrencesInGame >= 3)

\* as long as the game has at most 32 positions the two agree
ThreefoldWithinCapacity ==
    (game # << >> /\ Len(game) <= HISTORY_CAPACITY) =>
        (is_threefold_repetition(board_repetition_map) <=> OccurrencesInGame >= 3)

\* the answer is never true without three occurrences in the game
ThreefoldIsSound ==
    (game # << >> /\ is_threefold_repetition(board_repetition_map)) => OccurrencesInGame >= 3

\* the test: false after the second occurrence, true after the third
SecondOccurrenceIsNoDraw ==
    /\ plies = 4
    /\ OccurrencesInGame = 2
    /\ ~is_threefold_repetition(board_repetition_map)

ThirdOccurrenceIsDraw ==
    /\ plies = 8
    /\ OccurrencesInGame = 3
    /\ is_threefold_repetition(board_repetition_map)

\* the third occurrence comes when the first two have left the buffer
ThirdOccurrenceForgotten ==
    /\ game # << >>
    /\ OccurrencesInGame = 3
    /\ Occurrences(board_repetition_map, game[Len(game)]) = 1
    /\ game[1] = game[Len(game)]
    /\ ~is_threefold_repetition(board_repetition_map)


-----------------------------------------------------------------------------
(* C39 *)

\* the colour that right r belongs to
ColorOfRight(r) == IF r < 2 THEN White ELSE Black

\* every set right of b has its king on e1 / e8 and its rook on the corner
RightsHaveKingAndRook(b) ==
    \A r \in Rights :
       b.castling_rights[r] =>
           /\ SquareAt(b, KingSquareOf(r)) = Piece(ColorOfRight(r), King)
           /\ SquareAt(b, CornerOf(r)) = Piece(ColorOfRight(r), Rook)

\* 4k3/8/8/8/8/8/8/4K3 w KQ - 0 1: both rights of White set, no rook
FEN_RIGHTS_NO_ROOK ==
    <<"4", "k", "3", "/", "8", "/", "8", "/", "8", "/", "8", "/", "8", "/", "8", "/", "4", "K", "3", " ", "w", " ", "K", "Q", " ", "-", " ", "0", " ", "1">>

\* the generator does not look for the rook: with the right set and no rook
\* both castling moves are generated
CastlingWithoutRook(b) ==
    /\ ~RightsHaveKingAndRook(b)
    /\ SquaresHolding(b, White, Rook) = {}
    /\ {Move(0, 4, 0, 6), Move(0, 4, 0, 2)} \subseteq LegalMoveSet(b)

BoardWithoutRook == from_fen(FEN_RIGHTS_NO_ROOK).board

CastlingGeneratedWithoutRook == CastlingWithoutRook(BoardWithoutRook)

\* C39: in every position reached by legal moves from a from_fen position in
\* which it holds, a set castling right implies that the colour's king stands
\* on e1 / e8 and a rook of the colour on the right's corner; the castling
\* generator does not check that the rook is present.
C39_RightsHaveKingAndRook ==
    /\ RightsHaveKingAndRook(board)
    /\ CastlingGeneratedWithoutRook

\* a rook has been taken on its corner while its right was set; the right is
\* gone and another right is still set
C39_Witness ==
    /\ IsSome(last_move)
    /\ \E r \in Rights :
          /\ parent.castling_rights[r]
          /\ Unwrap(last_move).to = CornerOf(r)
          /\ SquareAt(parent, CornerOf(r)).kind = Rook
          /\ SquareAt(board, CornerOf(r)).color # ColorOfRight(r)
          /\ ~board.castling_rights[r]
          /\ \E q \in Rights \ {r} : board.castling_rights[q]


-----------------------------------------------------------------------------
(* uci.rs: parse_go_command on the parameters of a `go` line *)

\* the clock values of the model, in milliseconds: 0, 3, 5, 30 and 60000
ClockTokens == { <<"0">>, <<"3">>, <<"5">>, <<"3", "0">>, <<"6", "0", "0", "0", "0">> }

\* the increments: 0 and 10
IncrementTokens == { <<"0">>, <<"1", "0">> }

\* the moves to go: 0, 1 and 40
MovesToGoTokens == { <<"0">>, <<"1">>, <<"4", "0">> }

\* a parameter that is absent, or its keyword and its value
GoParameter(key, value) == IF value = << >> THEN << >> ELSE <<key, value>>

Absent == { << >> }

\* the token lists after `go`: every parameter absent or present
GoTokenLists ==
    { GoParameter(WTIME, w) \o GoParameter(BTIME, b) \o GoParameter(WINC, wi)
        \o GoParameter(BINC, bi) \o GoParameter(MOVESTOGO, m) :
        w \in Absent \cup ClockTokens, b \in Absent \cup ClockTokens,
        wi \in Absent \cup IncrementTokens, bi \in Absent \cup IncrementTokens,
        m \in Absent \cup MovesToGoTokens }

\* parse_go_command(&tokens[1..], engine.get_active_player()), line 55
ParseGoCommand ==
    /\ answer = None
    /\ \E tokens \in GoTokenLists, active_color \in {White, Black} :
          \E d \in parse_go_command(tokens, active_color) :
             /\ text' = tokens
             /\ answer' = Some([active_color |-> active_color, duration |-> d])
    /\ UNCHANGED <<boardVars, perftVars, historyVars, engineVars, parse_result>>

GoSpec == InitText /\ [][ParseGoCommand]_vars

-----------------------------------------------------------------------------
(* C40 *)

\* the clock of the side to move as the line gives it: None when absent
ClockGiven(tokens, active_color) ==
    ScanGo(tokens, 1, NoGoValues)[IF active_color = White THEN "wtime" ELSE "btime"]

\* the increment of the side to move, 0 when absent
IncrementGiven(tokens, active_color) ==
    unwrap_or(ScanGo(tokens, 1, NoGoValues)[IF active_color = White THEN "winc" ELSE "binc"], 0)

\* what the claim requires of the duration d returned for a clock
WithinClock(clock, d) ==
    /\ ~d.panic
    /\ d.millis # WRAPPED_MILLIS
    /\ clock = None => d.millis = 5000
    /\ IsSome(clock) => (d.millis > 0 /\ d.millis <= Unwrap(clock))

\* C40: for every combination of go parameters parse_go_command computes the
\* time without unsigned underflow or division by zero, returns the 5-second
\* fallback when no time is given for the side to move, and otherwise returns
\* a positive duration that does not exceed that side's remaining clock time.
C40_GoTimeWithinClock ==
    IsSome(answer) =>
        WithinClock(ClockGiven(text, Unwrap(answer).active_color), Unwrap(answer).duration)

\* with no clock and no increment for the side to move the fallback is returned
FallbackWithoutClockAndIncrement ==
    (/\ IsSome(answer)
     /\ ClockGiven(text, Unwrap(answer).active_color) = None
     /\ IncrementGiven(text, Unwrap(answer).active_color) = 0)
        => Unwrap(answer).duration = Millis(5000)

\* with a clock of at least 5 ms the arithmetic neither panics nor wraps
NoUnderflowFromFive ==
    (/\ IsSome(answer)
     /\ IsSome(ClockGiven(text, Unwrap(answer).active_color))
     /\ Unwrap(ClockGiven(text, Unwrap(answer).active_color)) >= 5)
        => /\ ~Unwrap(answer).duration.panic
           /\ Unwrap(answer).duration.millis # WRAPPED_MILLIS

\* the subtraction of line 198 has underflowed
GoUnderflow ==
    /\ IsSome(answer)
    /\ Unwrap(answer).duration.panic \/ Unwrap(answer).duration.millis = WRAPPED_MILLIS

\* an increment without a clock: the underflow instead of the fallback
GoUnderflowWithoutClock ==
    /\ GoUnderflow
    /\ ClockGiven(text, Unwrap(answer).active_color) = None

\* a clock of 5 ms with an increment: a duration of zero
GoZeroDuration ==
    /\ IsSome(answer)
    /\ Unwrap(answer).duration = Millis(0)

\* a clock shorter than the fallback that is returned for it
GoFallbackBeyondClock ==
    /\ IsSome(answer)
    /\ IsSome(ClockGiven(text, Unwrap(answer).active_color))
    /\ Unwrap(answer).duration = Millis(5000)
    /\ Unwrap(ClockGiven(text, Unwrap(answer).active_color)) < 5000

=============================================================================
